---- MODULE Spec2Model ----
(***************************************************************************)
(* Model of the joystick input-mapping engine of VICE                      *)
(* (src/vice/src/joyport/joystick.c): latched and current port values, the *)
(* latch alarm, network replay, the press counters and event dispatch, the *)
(* device registry with its default mapping, and the mapping-file parser   *)
(* and serializer.                                                         *)
(***************************************************************************)
EXTENDS Integers, Sequences, FiniteSets, TLC

(* ---------------------------------------------------------------------- *)
(* Program constants                                                       *)
(* ---------------------------------------------------------------------- *)

\* number of joystick ports: size of the initialiser of joyport_joystick[]
JOYPORT_MAX_PORTS == 11

\* number of counted pins: gtkjoy_pins[][JOYPORT_MAX_PINS], pins 0..11
JOYPORT_MAX_PINS == 12

JOYPAD_N == 1

JOYPAD_S == 2

JOYPAD_W == 4

JOYPAD_E == 8

JOYPAD_FIRE == 16

JOYPAD_FIRE2 == 32

JOYPAD_FIRE3 == 64

\* number of keysets: set_keyset1 and set_keyset2
JOYSTICK_KEYSET_NUM == 2

\* number of keys of a keyset: size of the initialiser of joypad_bits[]
JOYSTICK_KEYSET_NUM_KEYS == 16

\* columns of a keyset: the positions in joypad_bits[]
JOYSTICK_KEYSET_FIRE == 0

JOYSTICK_KEYSET_SW == 1

JOYSTICK_KEYSET_S == 2

JOYSTICK_KEYSET_SE == 3

JOYSTICK_KEYSET_W == 4

JOYSTICK_KEYSET_E == 5

JOYSTICK_KEYSET_NW == 6

JOYSTICK_KEYSET_N == 7

JOYSTICK_KEYSET_NE == 8

\* version of the snapshot module
DUMP_VER_MAJOR == 1

DUMP_VER_MINOR == 2

\* device ids of the resources JoyDevice<n> (joystick.h): no device, and
\* the id of host device 0
JOYDEV_NONE == 0

JOYDEV_REALJOYSTICK_MIN == 4

\* range of the resources JoyStick<n>AutoFireSpeed (joystick.h)
JOYSTICK_AUTOFIRE_SPEED_MIN == 1

JOYSTICK_AUTOFIRE_SPEED_MAX == 255

\* uint16_t range
UINT16_MAX == 65535

INT16_MIN == -32768

INT16_MAX == 32767

INT32_MAX == 2147483647

\* pins of the default mapping, as the mapping file header documents them:
\* 1/2/4/8/16/32/64 = u/d/l/r/fire/fire2/fire3
JOYSTICK_DIRECTION_UP == 1

JOYSTICK_DIRECTION_DOWN == 2

JOYSTICK_DIRECTION_LEFT == 4

JOYSTICK_DIRECTION_RIGHT == 8

JOYPORT_FIRE == 16

JOYPORT_FIRE_POTX == 32

JOYPORT_FIRE_POTY == 64

\* action numbers, as the mapping file header documents them
JOY_ACTION_NONE == 0

JOY_ACTION_JOYSTICK == 1

JOY_ACTION_KEYBOARD == 2

JOY_ACTION_MAP == 3

JOY_ACTION_UI_ACTIVATE == 4

JOY_ACTION_UI_FUNCTION == 5

JOY_ACTION_POT_AXIS == 6

JOY_ACTION_MAX == 6

\* input types, as the mapping file header documents them; the ball is the
\* last type joy_arch_parse_entry knows
JOY_INPUT_AXIS == 0

JOY_INPUT_BUTTON == 1

JOY_INPUT_HAT == 2

JOY_INPUT_BALL == 3

JOY_INPUT_MAX == 3

\* the UI action id that stands for no action
ACTION_NONE == 0

NUM_AXES_INITIAL == 8

NUM_BUTTONS_INITIAL == 32

NUM_HATS_INITIAL == 4

NUM_AXES_MAX == 1024

NUM_BUTTONS_MAX == 1024

NUM_HATS_MAX == 1024

(* ---------------------------------------------------------------------- *)
(* Bounds of the model                                                     *)
(* ---------------------------------------------------------------------- *)

\* machine_get_cycles_per_frame(): the largest delay the latch can draw
CyclesPerFrame == 2

\* devices the registry holds at most
MaxDevices == 2

\* machine_get_cycles_per_second()
CyclesPerSecond == 10

\* ports the bounded inputs address
UsedPorts == {0, 1}

AllPorts == 0 .. (JOYPORT_MAX_PORTS - 1)

AllPins == 0 .. (JOYPORT_MAX_PINS - 1)

\* the keysets (JOYSTICK_KEYSET_IDX_A, JOYSTICK_KEYSET_IDX_B)
Keysets == 0 .. (JOYSTICK_KEYSET_NUM - 1)

\* the columns of one keyset: the indexes of joypad_bits[]
KeysetColumns == 0 .. (JOYSTICK_KEYSET_NUM_KEYS - 1)

(* ---------------------------------------------------------------------- *)
(* Bit operations on unsigned 16 bit values                                *)
(* ---------------------------------------------------------------------- *)

RECURSIVE BitAnd(_, _)
BitAnd(a, b) ==
    IF a = 0 \/ b = 0 THEN 0
    ELSE (a % 2) * (b % 2) + 2 * BitAnd(a \div 2, b \div 2)

BitOr(a, b) == a + b - BitAnd(a, b)

\* (uint16_t)~a
BitNot16(a) == UINT16_MAX - (a % (UINT16_MAX + 1))

\* a & (1 << i)
HasBit(a, i) == (a \div (2 ^ i)) % 2 = 1

(* ---------------------------------------------------------------------- *)
(* Program state                                                           *)
(* ---------------------------------------------------------------------- *)

VARIABLES
    joystick_value,          \* current value of every port
    latch_joystick_value,    \* requested values: [last_used_joyport, values]
    network_joystick_value,  \* values received from the network
    joystick_alarm,          \* 0: not armed, d > 0: armed with delay d
    joystick_delay,          \* delay registered by joystick_register_delay
    joystick_machine_func,   \* TRUE iff a machine callback is registered
    joystick_hooks,          \* [hook, mask, state]: one function per field
    joystick_opposite_enable,\* resource JoyOpposite
    gtkjoy_pins,             \* press counters per port and pin
    joystick_devices,        \* registry of host devices
    netconn,                 \* network_connected()
    playback,                \* event_playback_active()
    joymap,                  \* lines of the mapping file last written
    snapshot,                \* modules of the snapshot, by port number
    joystick_autofire_enable,\* resources JoyStick<n>AutoFire
    joystick_autofire_mode,  \* resources JoyStick<n>AutoFireMode
    joystick_autofire_speed, \* resources JoyStick<n>AutoFireSpeed
    maincpu_clk,             \* the cycle counter of the main CPU
    joykeys_enable,          \* resource KeySetEnable
    joypad_status,           \* keys held, per keyset and column
    joypad_vmask,            \* vertical mask per keyset
    joypad_hmask,            \* horizontal mask per keyset
    joystick_port_map,       \* resources JoyDevice<n>: the device of a port
    backend_joydev,          \* the device a backend is filling with inputs
    joystick_axis_value,     \* pot values per port (0, 1) and pot (X, Y)
    joystick_init_done,      \* joystick_init has run
    calls,                   \* collaborator calls made by the last operation
    last                     \* the last operation and its inputs

vars == <<joystick_value, latch_joystick_value, network_joystick_value,
          joystick_alarm, joystick_delay, joystick_machine_func,
          joystick_hooks, joystick_opposite_enable, gtkjoy_pins,
          joystick_devices, netconn, playback, joymap, snapshot,
          joystick_autofire_enable, joystick_autofire_mode,
          joystick_autofire_speed, maincpu_clk, joykeys_enable,
          joypad_status, joypad_vmask, joypad_hmask, joystick_port_map,
          backend_joydev, joystick_axis_value, joystick_init_done, calls, last>>

\* one call to a collaborator outside joystick.c
Call(fn, arg) == [fn |-> fn, arg |-> arg]

ZeroPorts == [p \in AllPorts |-> 0]

\* static initialiser of joystick_port_map[]: no port has a device
NoPortMap == [p \in AllPorts |-> JOYDEV_NONE]

\* a snapshot that holds no module of a joystick
NoModules == [p \in AllPorts |-> [exists |-> FALSE, major |-> 0, minor |-> 0, data |-> 0]]

\* static initialisers of the two joystick_values_t objects
InitialValues == [last_used_joyport |-> JOYPORT_MAX_PORTS, values |-> ZeroPorts]

\* the program state as one record, threaded through the C functions
Cur ==
    [value |-> joystick_value,
     latch |-> latch_joystick_value,
     net |-> network_joystick_value,
     alarm |-> joystick_alarm,
     delay |-> joystick_delay,
     mfunc |-> joystick_machine_func,
     hooks |-> joystick_hooks,
     opposite |-> joystick_opposite_enable,
     pins |-> gtkjoy_pins,
     devs |-> joystick_devices,
     netconn |-> netconn,
     playback |-> playback,
     snapshot |-> snapshot,
     autofire_enable |-> joystick_autofire_enable,
     autofire_mode |-> joystick_autofire_mode,
     autofire_speed |-> joystick_autofire_speed,
     clk |-> maincpu_clk,
     joykeys_enable |-> joykeys_enable,
     status |-> joypad_status,
     vmask |-> joypad_vmask,
     hmask |-> joypad_hmask,
     port_map |-> joystick_port_map,
     backend |-> backend_joydev,
     axis_value |-> joystick_axis_value,
     init_done |-> joystick_init_done,
     ret |-> 0,
     calls |-> <<>>]

\* the state S becomes the next program state
Install(S) ==
    /\ joystick_value' = S.value
    /\ latch_joystick_value' = S.latch
    /\ network_joystick_value' = S.net
    /\ joystick_alarm' = S.alarm
    /\ joystick_delay' = S.delay
    /\ joystick_machine_func' = S.mfunc
    /\ joystick_hooks' = S.hooks
    /\ joystick_opposite_enable' = S.opposite
    /\ gtkjoy_pins' = S.pins
    /\ joystick_devices' = S.devs
    /\ netconn' = S.netconn
    /\ playback' = S.playback
    /\ snapshot' = S.snapshot
    /\ joystick_autofire_enable' = S.autofire_enable
    /\ joystick_autofire_mode' = S.autofire_mode
    /\ joystick_autofire_speed' = S.autofire_speed
    /\ maincpu_clk' = S.clk
    /\ joykeys_enable' = S.joykeys_enable
    /\ joypad_status' = S.status
    /\ joypad_vmask' = S.vmask
    /\ joypad_hmask' = S.hmask
    /\ joystick_port_map' = S.port_map
    /\ backend_joydev' = S.backend
    /\ joystick_axis_value' = S.axis_value
    /\ joystick_init_done' = S.init_done
    /\ calls' = S.calls

(* ---------------------------------------------------------------------- *)
(* Latching (joystick.c 139-379)                                           *)
(* ---------------------------------------------------------------------- *)

\* a table in which down has no opposite
C2_Mutant_opposite_direction(i) ==
    (IF HasBit(i, 0) THEN JOYPAD_S ELSE 0)
    + (IF HasBit(i, 2) THEN JOYPAD_E ELSE 0)
    + (IF HasBit(i, 3) THEN JOYPAD_W ELSE 0)

\* the table joystick_opposite_direction[], indexed by value & 0xf
joystick_opposite_direction(i) ==
    (IF HasBit(i, 0) THEN JOYPAD_S ELSE 0)
    + (IF HasBit(i, 1) THEN JOYPAD_N ELSE 0)
    + (IF HasBit(i, 2) THEN JOYPAD_E ELSE 0)
    + (IF HasBit(i, 3) THEN JOYPAD_W ELSE 0)

\* the latch copies only the port written last
C9_Mutant_latch_matrix(S) ==
    LET idx == S.latch.last_used_joyport
        c == IF S.mfunc
             THEN Append(S.calls, Call("joystick_machine_func", 0))
             ELSE S.calls
    IN [S EXCEPT !.value = IF idx < JOYPORT_MAX_PORTS
                           THEN [S.value EXCEPT ![idx] = S.latch.values[idx]]
                           ELSE S.latch.values,
                 !.calls = c]

joystick_latch_matrix(S) ==
    LET idx == S.net.last_used_joyport % 256
        nv == IF S.netconn
              THEN IF idx < JOYPORT_MAX_PORTS
                   THEN [S.value EXCEPT ![idx] = S.net.values[idx]]
                   ELSE S.net.values
              ELSE S.latch.values
        c == IF S.mfunc
             THEN Append(S.calls, Call("joystick_machine_func", 0))
             ELSE S.calls
    IN [S EXCEPT !.value = nv, !.calls = c]

joystick_event_record(S) ==
    [S EXCEPT !.calls = Append(@, Call("event_record", S.value))]

joystick_event_playback(S, data) ==
    joystick_latch_matrix([S EXCEPT !.latch.values = data])

\* an alarm handler that leaves the current values alone
C21_Mutant_latch_handler(S) ==
    joystick_event_record([S EXCEPT !.alarm = 0])

joystick_latch_handler(S) ==
    joystick_event_record(joystick_latch_matrix([S EXCEPT !.alarm = 0]))

joystick_event_delayed_playback(S, data) ==
    [S EXCEPT !.net = data, !.alarm = S.delay]

joystick_handle_hooks(S, joyport) ==
    LET masked_old == BitAnd(S.hooks.state[joyport], S.hooks.mask[joyport])
        masked_new == BitAnd(S.latch.values[joyport], S.hooks.mask[joyport])
    IN IF S.hooks.hook[joyport] /= 0 /\ masked_old /= masked_new
       THEN [S EXCEPT
               !.calls = Append(@, Call("joyport_handle_joystick_hook",
                                        <<joyport, masked_new>>)),
               !.hooks.state[joyport] = masked_new]
       ELSE S

\* the latch request arms the local alarm although the network is connected
C10_Mutant_process_latch(S, delay) ==
    [S EXCEPT !.alarm = delay,
              !.calls = @ \o <<Call("network_event_record_DELAY", delay),
                               Call("network_event_record_VALUE", S.latch)>>]

\* delay is the value lib_unsigned_rand(1, cycles_per_frame) returns; the
\* one value stands for every draw of one operation (the alarm keeps the
\* last draw only)
joystick_process_latch(S, delay) ==
    IF S.netconn
    THEN [S EXCEPT !.calls =
            @ \o <<Call("network_event_record_DELAY", delay),
                   Call("network_event_record_VALUE", S.latch)>>]
    ELSE [S EXCEPT !.alarm = delay]

joystick_set_value_absolute(S, joyport, value, delay) ==
    IF S.playback THEN S
    ELSE IF S.latch.values[joyport] /= value
    THEN LET S1 == [S EXCEPT !.latch.values[joyport] = value,
                             !.latch.last_used_joyport = joyport]
         IN joystick_handle_hooks(joystick_process_latch(S1, delay), joyport)
    ELSE S

joystick_set_value_or(S, joyport, value, delay) ==
    IF S.playback THEN S
    ELSE LET v1 == BitOr(S.latch.values[joyport], value)
             v2 == IF S.opposite = 0
                   THEN BitAnd(v1, BitNot16(joystick_opposite_direction(value % 16)))
                   ELSE v1
             S1 == [S EXCEPT !.latch.values[joyport] = v2,
                             !.latch.last_used_joyport = joyport]
         IN joystick_handle_hooks(joystick_process_latch(S1, delay), joyport)

\* the write is made during a playback too
C33_Mutant_set_value_and(S, joyport, value, delay) ==
    LET S1 == [S EXCEPT
                 !.latch.values[joyport] = BitAnd(@, value),
                 !.latch.last_used_joyport = joyport]
    IN joystick_handle_hooks(joystick_process_latch(S1, delay), joyport)

joystick_set_value_and(S, joyport, value, delay) ==
    IF S.playback THEN S
    ELSE LET S1 == [S EXCEPT
                      !.latch.values[joyport] = BitAnd(@, value),
                      !.latch.last_used_joyport = joyport]
         IN joystick_handle_hooks(joystick_process_latch(S1, delay), joyport)

\* the loop of joystick_clear_all over the ports i .. JOYPORT_MAX_PORTS - 1
RECURSIVE HandleAllHooks(_, _)
HandleAllHooks(S, i) ==
    IF i >= JOYPORT_MAX_PORTS THEN S
    ELSE HandleAllHooks(joystick_handle_hooks(S, i), i + 1)

joystick_clear(S, joyport) ==
    joystick_handle_hooks(
        joystick_latch_matrix([S EXCEPT !.latch.values[joyport] = 0,
                                        !.latch.last_used_joyport = joyport]),
        joyport)

joystick_clear_all(S) ==
    HandleAllHooks(
        joystick_latch_matrix([S EXCEPT !.latch.values = ZeroPorts,
                                        !.latch.last_used_joyport = JOYPORT_MAX_PORTS]),
        0)

\* second_cycles, cycles_per_flip and flip_part are uint32_t; the division
\* is the truncating one
get_joystick_autofire(S, index) ==
    LET second_cycles == S.clk % CyclesPerSecond
        cycles_per_flip == CyclesPerSecond \div (S.autofire_speed[index] * 2)
        flip_part == second_cycles \div cycles_per_flip
    IN IF flip_part % 2 = 1 THEN 0 ELSE 1

\* the permanent mode takes the fire button from the autofire pattern also
\* while the button is pressed
C14_Mutant_get_joystick_value(S, index) ==
    LET retval == BitAnd(S.value[index], UINT16_MAX - JOYPAD_FIRE)
        pressed == HasBit(S.value[index], 4)
        fire_button ==
            IF S.autofire_enable[index] # 0
            THEN IF S.autofire_mode[index] = "JOYSTICK_AUTOFIRE_MODE_PERMANENT"
                 THEN get_joystick_autofire(S, index) # 0
                 ELSE IF pressed
                      THEN get_joystick_autofire(S, index) # 0
                      ELSE pressed
            ELSE pressed
    IN BitOr(retval, IF fire_button THEN JOYPAD_FIRE ELSE 0)

get_joystick_value(S, index) ==
    LET retval == BitAnd(S.value[index], UINT16_MAX - JOYPAD_FIRE)
        pressed == HasBit(S.value[index], 4)
        fire_button ==
            IF S.autofire_enable[index] # 0
            THEN IF S.autofire_mode[index] = "JOYSTICK_AUTOFIRE_MODE_PERMANENT"
                 THEN IF ~pressed
                      THEN get_joystick_autofire(S, index) # 0
                      ELSE pressed
                 ELSE IF pressed
                      THEN get_joystick_autofire(S, index) # 0
                      ELSE pressed
            ELSE pressed
    IN BitOr(retval, IF fire_button THEN JOYPAD_FIRE ELSE 0)

set_joystick_autofire(S, val, port_idx) ==
    [S EXCEPT !.autofire_enable[port_idx] = IF val # 0 THEN 1 ELSE 0, !.ret = 0]

set_joystick_autofire_mode(S, val, port_idx) ==
    [S EXCEPT !.autofire_mode[port_idx] =
                  IF val # 0 THEN "JOYSTICK_AUTOFIRE_MODE_PERMANENT"
                  ELSE "JOYSTICK_AUTOFIRE_MODE_PRESS",
              !.ret = 0]

set_joystick_autofire_speed(S, val, port_idx) ==
    IF val < JOYSTICK_AUTOFIRE_SPEED_MIN \/ val > JOYSTICK_AUTOFIRE_SPEED_MAX
    THEN [S EXCEPT !.ret = -1]
    ELSE [S EXCEPT !.autofire_speed[port_idx] = val, !.ret = 0]

(* ---------------------------------------------------------------------- *)
(* Host devices and their inputs (joystick.c 3398-3420, 3809-4116)         *)
(* ---------------------------------------------------------------------- *)

\* C integer division: truncation toward zero
CDiv(a, b) ==
    IF (a >= 0) = (b > 0) THEN a \div b
    ELSE -((-a) \div b)

\* joystick_mapping_init sets the action; the payload union starts as 0
joystick_mapping_init ==
    [action |-> JOY_ACTION_NONE, joy_pin |-> 0, key |-> <<0, 0, 0>>, ui_action |-> 0]

joystick_axis_init ==
    [code |-> 0, name |-> 0, prev |-> "JOY_AXIS_MIDDLE", index |-> -1,
     minimum |-> INT16_MIN, maximum |-> INT16_MAX, digital |-> FALSE,
     negative |-> joystick_mapping_init, positive |-> joystick_mapping_init,
     pot |-> 0,
     calibration |-> [invert |-> FALSE, negative |-> 0, positive |-> 0]]

joystick_button_init ==
    [code |-> 0, name |-> 0, prev |-> 0, index |-> -1,
     mapping |-> joystick_mapping_init]

joystick_hat_init ==
    [code |-> 0, name |-> 0, prev |-> 0, index |-> -1,
     up |-> joystick_mapping_init, down |-> joystick_mapping_init,
     left |-> joystick_mapping_init, right |-> joystick_mapping_init]

joystick_calibration_default_for_axis(axis) ==
    IF ~axis.digital
    THEN LET r0 == axis.maximum - axis.minimum
             range == IF r0 < INT32_MAX THEN r0 + 1 ELSE r0
         IN [axis EXCEPT
               !.calibration.negative = axis.minimum + CDiv(range, 4),
               !.calibration.positive = axis.minimum + CDiv(range, 4) * 3]
    ELSE [axis EXCEPT !.calibration.negative = -1,
                      !.calibration.positive = 1]

joystick_device_new ==
    [name |-> 0, axes |-> <<>>, buttons |-> <<>>, hats |-> <<>>,
     max_axes |-> NUM_AXES_INITIAL, max_buttons |-> NUM_BUTTONS_INITIAL,
     max_hats |-> NUM_HATS_INITIAL, disable_sort |-> FALSE, joyport |-> -1]

\* num_axes is Len(axes); the ignored axis is freed
joystick_device_add_axis(joydev, axis) ==
    IF joydev.max_axes >= NUM_AXES_MAX THEN joydev
    ELSE [joydev EXCEPT
            !.max_axes = IF Len(joydev.axes) = @ THEN @ * 2 ELSE @,
            !.axes = Append(@, joystick_calibration_default_for_axis(axis))]

joystick_device_add_button(joydev, button) ==
    IF joydev.max_buttons >= NUM_BUTTONS_MAX THEN joydev
    ELSE [joydev EXCEPT
            !.max_buttons = IF Len(joydev.buttons) = @ THEN @ * 2 ELSE @,
            !.buttons = Append(@, button)]

\* with the array full the code doubles num_hats, not max_hats: the slots
\* num_hats .. 2 * num_hats - 1 are counted but were never written; they
\* show here as hats with code -1
joystick_device_add_hat(joydev, hat) ==
    IF joydev.max_hats >= NUM_HATS_MAX THEN joydev
    ELSE IF Len(joydev.hats) = joydev.max_hats
    THEN [joydev EXCEPT
            !.hats = Append(@ \o [i \in 1 .. Len(@) |->
                                    [joystick_hat_init EXCEPT !.code = -1]],
                            hat)]
    ELSE [joydev EXCEPT !.hats = Append(@, hat)]

(* ---------------------------------------------------------------------- *)
(* Registration (joystick.c 3495-3737)                                     *)
(* ---------------------------------------------------------------------- *)

Pin(pin) == [joystick_mapping_init EXCEPT !.action = JOY_ACTION_JOYSTICK, !.joy_pin = pin]

\* the default mapping takes the vertical axis upside down
C5_Mutant_default_mapping(joydev) ==
    LET d1 == IF Len(joydev.hats) > 0
              THEN [joydev EXCEPT
                      !.hats[1].up = Pin(JOYSTICK_DIRECTION_UP),
                      !.hats[1].down = Pin(JOYSTICK_DIRECTION_DOWN),
                      !.hats[1].left = Pin(JOYSTICK_DIRECTION_LEFT),
                      !.hats[1].right = Pin(JOYSTICK_DIRECTION_RIGHT)]
              ELSE IF Len(joydev.axes) > 1
              THEN [joydev EXCEPT
                      !.axes[1].negative = Pin(JOYSTICK_DIRECTION_LEFT),
                      !.axes[1].positive = Pin(JOYSTICK_DIRECTION_RIGHT),
                      !.axes[2].negative = Pin(JOYSTICK_DIRECTION_DOWN),
                      !.axes[2].positive = Pin(JOYSTICK_DIRECTION_UP)]
              ELSE joydev
        fire(d, i, pin) ==
            IF Len(d.buttons) > i
            THEN [d EXCEPT !.buttons[i + 1].mapping = Pin(pin)]
            ELSE d
    IN IF ~(Len(joydev.hats) > 0 \/ Len(joydev.axes) > 1) \/ Len(joydev.buttons) = 0
       THEN d1
       ELSE fire(fire(fire(d1, 0, JOYPORT_FIRE), 1, JOYPORT_FIRE_POTX),
                 2, JOYPORT_FIRE_POTY)

\* the return value is not used by the caller and is left out
joystick_device_apply_default_mapping(joydev) ==
    LET d1 == IF Len(joydev.hats) > 0
              THEN [joydev EXCEPT
                      !.hats[1].up = [@ EXCEPT !.action = JOY_ACTION_JOYSTICK,
                                               !.joy_pin = JOYSTICK_DIRECTION_UP],
                      !.hats[1].down = [@ EXCEPT !.action = JOY_ACTION_JOYSTICK,
                                                 !.joy_pin = JOYSTICK_DIRECTION_DOWN],
                      !.hats[1].left = [@ EXCEPT !.action = JOY_ACTION_JOYSTICK,
                                                 !.joy_pin = JOYSTICK_DIRECTION_LEFT],
                      !.hats[1].right = [@ EXCEPT !.action = JOY_ACTION_JOYSTICK,
                                                  !.joy_pin = JOYSTICK_DIRECTION_RIGHT]]
              ELSE IF Len(joydev.axes) > 1
              THEN [joydev EXCEPT
                      !.axes[1].negative = [@ EXCEPT !.action = JOY_ACTION_JOYSTICK,
                                                     !.joy_pin = JOYSTICK_DIRECTION_LEFT],
                      !.axes[1].positive = [@ EXCEPT !.action = JOY_ACTION_JOYSTICK,
                                                     !.joy_pin = JOYSTICK_DIRECTION_RIGHT],
                      !.axes[2].negative = [@ EXCEPT !.action = JOY_ACTION_JOYSTICK,
                                                     !.joy_pin = JOYSTICK_DIRECTION_UP],
                      !.axes[2].positive = [@ EXCEPT !.action = JOY_ACTION_JOYSTICK,
                                                     !.joy_pin = JOYSTICK_DIRECTION_DOWN]]
              ELSE joydev
        directions == Len(joydev.hats) > 0 \/ Len(joydev.axes) > 1
        fire(d, i, pin) ==
            IF Len(d.buttons) > i
            THEN [d EXCEPT !.buttons[i + 1].mapping =
                     [@ EXCEPT !.action = JOY_ACTION_JOYSTICK, !.joy_pin = pin]]
            ELSE d
    IN IF ~directions \/ Len(joydev.buttons) = 0 THEN d1
       ELSE fire(fire(fire(d1, 0, JOYPORT_FIRE), 1, JOYPORT_FIRE_POTX),
                 2, JOYPORT_FIRE_POTY)

\* permutations of 1 .. n
Perms(n) == {f \in [1 .. n -> 1 .. n] : \A i, j \in 1 .. n : f[i] = f[j] => i = j}

\* what qsort with a comparison on the code can leave: every arrangement of
\* the same elements in ascending code order (inputs with equal codes in
\* any order)
QsortResults(seq) ==
    {[i \in 1 .. Len(seq) |-> seq[f[i]]] : f \in
        {g \in Perms(Len(seq)) :
            \A i \in 1 .. Len(seq) - 1 : seq[g[i]].code <= seq[g[i + 1]].code}}

Reindex(seq) == [i \in 1 .. Len(seq) |-> [seq[i] EXCEPT !.index = i - 1]]

\* axes, buttons, hats: the arrangements qsort left
order_inputs_on_code(joydev, axes, buttons, hats) ==
    [joydev EXCEPT
       !.axes = Reindex(IF Len(@) > 1 THEN axes ELSE @),
       !.buttons = Reindex(IF Len(@) > 1 THEN buttons ELSE @),
       !.hats = Reindex(IF Len(@) > 1 THEN hats ELSE @)]

\* a device with a hat needs no button
C4_Mutant_accepts(joydev) ==
    (Len(joydev.axes) >= 2 /\ Len(joydev.buttons) >= 1) \/ Len(joydev.hats) >= 1

\* the condition of joystick_device_register on the inputs of the device
joystick_device_register_accepts(joydev) ==
    (Len(joydev.axes) >= 2 \/ Len(joydev.hats) >= 1) /\ Len(joydev.buttons) >= 1

\* the driver has a close method and no customize method
joystick_device_register(S, joydev, axes, buttons, hats) ==
    IF ~joystick_device_register_accepts(joydev)
    THEN [S EXCEPT !.calls = @ \o <<Call("joy_driver.close", joydev.name),
                                    Call("joystick_device_free", joydev.name)>>,
                   !.ret = FALSE]
    ELSE LET d1 == IF ~joydev.disable_sort
                   THEN order_inputs_on_code(joydev, axes, buttons, hats)
                   ELSE joydev
         IN [S EXCEPT !.devs = Append(@, joystick_device_apply_default_mapping(d1)),
                      !.ret = TRUE]

(* ---------------------------------------------------------------------- *)
(* The mapping file (joystick.c 1151-1170, 1303-2031)                      *)
(* ---------------------------------------------------------------------- *)

\* A line of a mapping file is the sequence of its integer literals and the
\* word that follows them ("" for none); a keyword line is its keyword.
\* printf("%i") and strtol are inverse on the integers of the model, so the
\* text of a literal is the integer.
Line(ints, word) == [ints |-> ints, word |-> word]

BlankLine == Line(<<>>, "")

ClearLine == Line(<<>>, "!CLEAR")

\* the keywords of the model
KeywordWords == {"!CLEAR", "!OTHER"}

\* words whose first character is no letter
NonAlphaWords == {"", "_quit"} \cup KeywordWords

\* the table of UI actions (uiactions.c): names and their ids
UiActionNames == <<"quit", "reset-soft">>

ui_action_get_id(name) ==
    IF \E i \in 1 .. Len(UiActionNames) : UiActionNames[i] = name
    THEN CHOOSE i \in 1 .. Len(UiActionNames) : UiActionNames[i] = name
    ELSE -1

ui_action_get_name(id) ==
    IF id \in 1 .. Len(UiActionNames) THEN UiActionNames[id] ELSE "(null)"

Min(a, b) == IF a < b THEN a ELSE b

Device(devs, joy_index) == devs[joy_index + 1]

Result(devs, ok) == [devs |-> devs, result |-> ok]

parser_set_mapping(state, mapping) ==
    LET m == [mapping EXCEPT !.action = state.action]
    IN CASE state.action = JOY_ACTION_JOYSTICK ->
              [m EXCEPT !.joy_pin = state.pin]
         [] state.action = JOY_ACTION_KEYBOARD ->
              [m EXCEPT !.key = state.key]
         [] state.action = JOY_ACTION_UI_FUNCTION ->
              [m EXCEPT !.ui_action = state.ui_action_id]
         [] OTHER -> m

\* a line for the negative direction of an axis also unmaps the positive one
C29_Mutant_set_axis(devs, state) ==
    LET joydev == Device(devs, state.joy_index)
        index == state.input_index \div 2
        direction == state.input_index % 2
    IN IF state.action = JOY_ACTION_POT_AXIS
       THEN IF state.input_index < Len(joydev.axes)
            THEN Result([devs EXCEPT
                           ![state.joy_index + 1].axes[state.input_index + 1].pot
                               = state.pot],
                        TRUE)
            ELSE Result(devs, FALSE)
       ELSE IF index < Len(joydev.axes)
            THEN IF direction = 0
                 THEN Result([devs EXCEPT
                                ![state.joy_index + 1].axes[index + 1].positive
                                    = parser_set_mapping(state, @)],
                             TRUE)
                 ELSE Result([devs EXCEPT
                                ![state.joy_index + 1].axes[index + 1].negative
                                    = parser_set_mapping(state, @),
                                ![state.joy_index + 1].axes[index + 1].positive
                                    = [@ EXCEPT !.action = JOY_ACTION_NONE]],
                             TRUE)
            ELSE Result(devs, FALSE)

parser_set_axis(devs, state) ==
    LET joydev == Device(devs, state.joy_index)
        index == state.input_index \div 2
        direction == state.input_index % 2
    IN IF state.action = JOY_ACTION_POT_AXIS
       THEN IF state.input_index < Len(joydev.axes)
            THEN Result([devs EXCEPT
                           ![state.joy_index + 1].axes[state.input_index + 1].pot
                               = state.pot],
                        TRUE)
            ELSE Result(devs, FALSE)
       ELSE IF index < Len(joydev.axes)
            THEN IF direction = 0
                 THEN Result([devs EXCEPT
                                ![state.joy_index + 1].axes[index + 1].positive
                                    = parser_set_mapping(state, @)],
                             TRUE)
                 ELSE Result([devs EXCEPT
                                ![state.joy_index + 1].axes[index + 1].negative
                                    = parser_set_mapping(state, @)],
                             TRUE)
            ELSE Result(devs, FALSE)

\* every line is applied to button 0
C7_Mutant_set_button(devs, state) ==
    Result([devs EXCEPT ![state.joy_index + 1].buttons[1].mapping
                            = parser_set_mapping(state, @)],
           state.input_index < Len(Device(devs, state.joy_index).buttons))

parser_set_button(devs, state) ==
    LET joydev == Device(devs, state.joy_index)
        index == state.input_index
    IN IF index < Len(joydev.buttons)
       THEN Result([devs EXCEPT ![state.joy_index + 1].buttons[index + 1].mapping
                                    = parser_set_mapping(state, @)],
                   TRUE)
       ELSE Result(devs, FALSE)

\* the enumeration of the hat directions (joystick.h)
joystick_hat_direction ==
    [JOY_HAT_UP |-> 0, JOY_HAT_DOWN |-> 1, JOY_HAT_LEFT |-> 2, JOY_HAT_RIGHT |-> 3]

\* the cases for up and down are exchanged
C16_Mutant_set_hat(devs, state) ==
    LET index == state.input_index \div 4
        direction == state.input_index % 4
        joydev == Device(devs, state.joy_index)
    IN IF index < Len(joydev.hats)
       THEN CASE direction = joystick_hat_direction.JOY_HAT_UP ->
                   Result([devs EXCEPT ![state.joy_index + 1].hats[index + 1].down
                                           = parser_set_mapping(state, @)], TRUE)
              [] direction = joystick_hat_direction.JOY_HAT_DOWN ->
                   Result([devs EXCEPT ![state.joy_index + 1].hats[index + 1].up
                                           = parser_set_mapping(state, @)], TRUE)
              [] direction = joystick_hat_direction.JOY_HAT_LEFT ->
                   Result([devs EXCEPT ![state.joy_index + 1].hats[index + 1].left
                                           = parser_set_mapping(state, @)], TRUE)
              [] direction = joystick_hat_direction.JOY_HAT_RIGHT ->
                   Result([devs EXCEPT ![state.joy_index + 1].hats[index + 1].right
                                           = parser_set_mapping(state, @)], TRUE)
              [] OTHER -> Result(devs, FALSE)
       ELSE Result(devs, FALSE)

parser_set_hat(devs, state) ==
    LET index == state.input_index \div 4
        direction == state.input_index % 4
        joydev == Device(devs, state.joy_index)
    IN IF index < Len(joydev.hats)
       THEN CASE direction = joystick_hat_direction.JOY_HAT_UP ->
                   Result([devs EXCEPT ![state.joy_index + 1].hats[index + 1].up
                                           = parser_set_mapping(state, @)], TRUE)
              [] direction = joystick_hat_direction.JOY_HAT_DOWN ->
                   Result([devs EXCEPT ![state.joy_index + 1].hats[index + 1].down
                                           = parser_set_mapping(state, @)], TRUE)
              [] direction = joystick_hat_direction.JOY_HAT_LEFT ->
                   Result([devs EXCEPT ![state.joy_index + 1].hats[index + 1].left
                                           = parser_set_mapping(state, @)], TRUE)
              [] direction = joystick_hat_direction.JOY_HAT_RIGHT ->
                   Result([devs EXCEPT ![state.joy_index + 1].hats[index + 1].right
                                           = parser_set_mapping(state, @)], TRUE)
              [] OTHER -> Result(devs, FALSE)
       ELSE Result(devs, FALSE)

parser_set_ball(devs, state) == Result(devs, FALSE)

\* the action-specific columns: [ok, pin, pot, ui_action_id, key]
parse_action_args(action, rest, word) ==
    LET none == [ok |-> TRUE, pin |-> 0, pot |-> 0, ui_action_id |-> 0,
                 key |-> <<0, 0, 0>>]
        fail == [none EXCEPT !.ok = FALSE]
    IN CASE action = JOY_ACTION_JOYSTICK ->
              IF Len(rest) < 1 THEN fail
              ELSE IF rest[1] < 0 \/ rest[1] > UINT16_MAX THEN fail
              ELSE [none EXCEPT !.pin = rest[1]]
         [] action = JOY_ACTION_KEYBOARD ->
              IF Min(3, Len(rest)) < 2 THEN fail
              ELSE [none EXCEPT !.key =
                      <<rest[1], rest[2], IF Len(rest) >= 3 THEN rest[3] ELSE 0>>]
         [] action = JOY_ACTION_UI_FUNCTION ->
              IF Len(rest) > 0 \/ word \in NonAlphaWords THEN fail
              ELSE IF ui_action_get_id(word) <= ACTION_NONE THEN fail
              ELSE [none EXCEPT !.ui_action_id = ui_action_get_id(word)]
         [] action = JOY_ACTION_POT_AXIS ->
              IF Len(rest) < 1 THEN fail
              ELSE [none EXCEPT !.pot = rest[1]]
         [] OTHER -> none

joy_arch_parse_entry(devs, line) ==
    LET args == line.ints
        nargs == Min(4, Len(args))
    IN IF nargs < 1 THEN Result(devs, FALSE)
       ELSE IF args[1] < 0 \/ args[1] >= Len(devs) THEN Result(devs, FALSE)
       ELSE IF nargs < 2 THEN Result(devs, FALSE)
       ELSE IF args[2] < 0 \/ args[2] > JOY_INPUT_MAX THEN Result(devs, FALSE)
       ELSE IF nargs < 3 THEN Result(devs, FALSE)
       ELSE IF args[3] < 0 THEN Result(devs, FALSE)
       ELSE IF nargs < 4 THEN Result(devs, FALSE)
       ELSE IF args[4] < JOY_ACTION_NONE \/ args[4] > JOY_ACTION_MAX
       THEN Result(devs, FALSE)
       ELSE LET a == parse_action_args(args[4], SubSeq(args, 5, Len(args)), line.word)
                state == [joy_index |-> args[1], input_type |-> args[2],
                          input_index |-> args[3], action |-> args[4],
                          pin |-> a.pin, pot |-> a.pot,
                          ui_action_id |-> a.ui_action_id, key |-> a.key]
            IN IF ~a.ok THEN Result(devs, FALSE)
               ELSE CASE state.input_type = JOY_INPUT_AXIS -> parser_set_axis(devs, state)
                      [] state.input_type = JOY_INPUT_BUTTON -> parser_set_button(devs, state)
                      [] state.input_type = JOY_INPUT_HAT -> parser_set_hat(devs, state)
                      [] state.input_type = JOY_INPUT_BALL -> parser_set_ball(devs, state)
                      [] OTHER -> Result(devs, FALSE)

NoMapping(mapping) == [mapping EXCEPT !.action = JOY_ACTION_NONE]

joy_arch_keyword_clear(devs) ==
    [i \in 1 .. Len(devs) |->
        [devs[i] EXCEPT
           !.axes = [k \in 1 .. Len(@) |->
                        [@[k] EXCEPT !.positive = NoMapping(@),
                                     !.negative = NoMapping(@)]],
           !.buttons = [k \in 1 .. Len(@) |->
                        [@[k] EXCEPT !.mapping = NoMapping(@)]],
           !.hats = [k \in 1 .. Len(@) |->
                        [@[k] EXCEPT !.up = NoMapping(@), !.down = NoMapping(@),
                                     !.left = NoMapping(@), !.right = NoMapping(@)]]]]

joy_arch_parse_keyword(devs, line) ==
    IF line.word = "!CLEAR" THEN joy_arch_keyword_clear(devs) ELSE devs

\* the lines of the file from line i on, applied in turn; failed counts the
\* entries joy_arch_parse_entry rejected
\* a line whose first character is '!'
IsKeywordLine(line) == line.ints = <<>> /\ line.word \in KeywordWords

IsEntryLine(line) == line # BlankLine /\ ~IsKeywordLine(line)

RECURSIVE LoadLines(_, _, _, _)
LoadLines(devs, lines, i, failed) ==
    IF i > Len(lines) THEN [devs |-> devs, failed |-> failed]
    ELSE IF lines[i] = BlankLine THEN LoadLines(devs, lines, i + 1, failed)
    ELSE IF IsKeywordLine(lines[i])
    THEN LoadLines(joy_arch_parse_keyword(devs, lines[i]), lines, i + 1, failed)
    ELSE LET r == joy_arch_parse_entry(devs, lines[i])
         IN LoadLines(r.devs, lines, i + 1,
                      IF r.result THEN failed ELSE failed + 1)

\* a file is [exists, lines]; the registry is allocated
joy_arch_mapping_load(devs, file) ==
    IF ~file.exists THEN [devs |-> devs, failed |-> 0, applied |-> 0, ret |-> -1]
    ELSE LET r == LoadLines(devs, file.lines, 1, 0)
         IN [devs |-> r.devs, failed |-> r.failed,
             applied |-> Cardinality({i \in 1 .. Len(file.lines) :
                                        IsEntryLine(file.lines[i])}) - r.failed,
             ret |-> 0]

mapping_dump_map(device_index, input_type, map_index, map) ==
    Line(<<device_index, input_type, map_index, map.action>>
            \o (CASE map.action = JOY_ACTION_JOYSTICK -> <<map.joy_pin>>
                  [] map.action = JOY_ACTION_KEYBOARD -> <<map.key[1], map.key[2]>>
                  [] OTHER -> <<>>),
         IF map.action = JOY_ACTION_UI_FUNCTION
         THEN ui_action_get_name(map.ui_action) ELSE "")

RECURSIVE Flatten(_)
Flatten(seqs) ==
    IF seqs = <<>> THEN <<>> ELSE Head(seqs) \o Flatten(Tail(seqs))

\* the comment lines of the header and of the device names read as blank
\* lines once the comment is cut
joy_arch_mapping_dump(devs) ==
    <<BlankLine, ClearLine, BlankLine>> \o
    Flatten([d \in 1 .. Len(devs) |->
        LET joydev == devs[d]
            dev_idx == d - 1
        IN <<BlankLine>>
           \o Flatten([k \in 1 .. Len(joydev.axes) |->
                (IF joydev.axes[k].pot > 0
                 THEN <<Line(<<dev_idx, JOY_INPUT_AXIS, k - 1, JOY_ACTION_POT_AXIS,
                               joydev.axes[k].pot>>, "")>>
                 ELSE <<mapping_dump_map(dev_idx, JOY_INPUT_AXIS, 2 * (k - 1),
                                         joydev.axes[k].positive),
                        mapping_dump_map(dev_idx, JOY_INPUT_AXIS, 2 * (k - 1) + 1,
                                         joydev.axes[k].negative)>>)
                \o <<BlankLine>>])
           \o [k \in 1 .. Len(joydev.buttons) |->
                 mapping_dump_map(dev_idx, JOY_INPUT_BUTTON, k - 1,
                                  joydev.buttons[k].mapping)]
           \o <<BlankLine>>
           \o Flatten([k \in 1 .. Len(joydev.hats) |->
                <<mapping_dump_map(dev_idx, JOY_INPUT_HAT, 4 * (k - 1), joydev.hats[k].up),
                  mapping_dump_map(dev_idx, JOY_INPUT_HAT, 4 * (k - 1) + 1, joydev.hats[k].down),
                  mapping_dump_map(dev_idx, JOY_INPUT_HAT, 4 * (k - 1) + 2, joydev.hats[k].left),
                  mapping_dump_map(dev_idx, JOY_INPUT_HAT, 4 * (k - 1) + 3, joydev.hats[k].right)>>])
           \o (IF dev_idx < Len(devs) - 1 THEN <<BlankLine, BlankLine>> ELSE <<>>)])

\* axis_idx is trusted; a write outside joystick_axis_value[2][2] is noted
\* in calls with its indexes and leaves the array of the model alone
joystick_set_axis_value(S, joynum, axis_idx, value) ==
    IF joynum < Len(S.devs)
    THEN LET joydev == S.devs[joynum + 1]
             axis == joydev.axes[axis_idx + 1]
             pot == axis.pot - 1
         IN IF (joydev.joyport = 0 \/ joydev.joyport = 1) /\ axis.pot > 0
            THEN [S EXCEPT
                    !.axis_value = IF pot \in 0 .. 1
                                   THEN [@ EXCEPT ![joydev.joyport][pot] = value]
                                   ELSE @,
                    !.calls = Append(@, Call("joystick_axis_value",
                                             <<joydev.joyport, pot, value>>))]
            ELSE S
    ELSE S

joy_set_pot_mapping(devs, joystick_device_num, axis, pot) ==
    [devs EXCEPT ![joystick_device_num + 1].axes[axis + 1].pot = pot + 1]

joy_delete_pot_mapping(devs, joystick_device_num, pot) ==
    IF joystick_device_num >= 0 /\ joystick_device_num < Len(devs)
    THEN [devs EXCEPT ![joystick_device_num + 1].axes =
            [j \in 1 .. Len(@) |->
                IF @[j].pot - 1 = pot THEN [@[j] EXCEPT !.pot = 0] ELSE @[j]]]
    ELSE devs

(* ---------------------------------------------------------------------- *)
(* Dispatch of host events (joystick.c 2867, 2965-3194)                    *)
(* ---------------------------------------------------------------------- *)

ValidPort(joyport) == joyport >= 0 /\ joyport < JOYPORT_MAX_PORTS

\* the loop over the pins i .. JOYPORT_MAX_PINS - 1 of gtkjoy_set_value_press
RECURSIVE PressPins(_, _, _, _)
PressPins(pins, joyport, value, i) ==
    IF i >= JOYPORT_MAX_PINS THEN pins
    ELSE PressPins(IF HasBit(value, i)
                   THEN [pins EXCEPT ![joyport][i] = @ + 1]
                   ELSE pins,
                   joyport, value, i + 1)

gtkjoy_set_value_press(S, joyport, value, delay) ==
    joystick_set_value_or([S EXCEPT !.pins = PressPins(@, joyport, value, 0)],
                          joyport, value, delay)

\* the loop over the pins i .. JOYPORT_MAX_PINS - 1 of gtkjoy_set_value_release
RECURSIVE ReleasePins(_, _, _, _, _)
ReleasePins(S, joyport, value, delay, i) ==
    IF i >= JOYPORT_MAX_PINS THEN S
    ELSE IF HasBit(value, i)
    THEN LET S1 == IF S.pins[joyport][i] > 0
                   THEN [S EXCEPT !.pins[joyport][i] = @ - 1]
                   ELSE S
             S2 == IF S1.pins[joyport][i] = 0
                   THEN joystick_set_value_and(S1, joyport, BitNot16(value), delay)
                   ELSE S1
         IN ReleasePins(S2, joyport, value, delay, i + 1)
    ELSE ReleasePins(S, joyport, value, delay, i + 1)

gtkjoy_set_value_release(S, joyport, value, delay) ==
    ReleasePins(S, joyport, value, delay, 0)

\* every call is noted in calls, before what it does
joy_perform_event(S, event, joyport, value, delay) ==
    LET S0 == [S EXCEPT !.calls = Append(@, Call("joy_perform_event",
                                                 <<event, joyport, value>>))]
    IN CASE event.action = JOY_ACTION_JOYSTICK ->
              IF ValidPort(joyport)
              THEN IF value # 0
                   THEN gtkjoy_set_value_press(S0, joyport, event.joy_pin, delay)
                   ELSE gtkjoy_set_value_release(S0, joyport, event.joy_pin, delay)
              ELSE S0
         [] event.action = JOY_ACTION_KEYBOARD ->
              [S0 EXCEPT !.calls = Append(@, Call("keyboard_set_keyarr_any",
                                                  <<event.key[1], event.key[2], value>>))]
         [] event.action = JOY_ACTION_UI_ACTIVATE ->
              IF ValidPort(joyport) /\ value # 0
              THEN [S0 EXCEPT !.calls = Append(@, Call("arch_ui_activate", 0))]
              ELSE S0
         [] event.action = JOY_ACTION_UI_FUNCTION ->
              IF ValidPort(joyport) /\ value # 0 /\ event.ui_action > ACTION_NONE
              THEN [S0 EXCEPT !.calls = Append(@, Call("ui_action_trigger",
                                                       event.ui_action))]
              ELSE S0
         [] OTHER -> S0

\* range / 2 of joy_axis_event for minimum <= maximum: the uint32_t range
\* maximum - minimum is UINT32_MAX, and is not incremented, exactly for the
\* full int32_t range, where UINT32_MAX / 2 = INT32_MAX
HalfRange(axis) ==
    IF axis.maximum = INT32_MAX /\ axis.minimum = -INT32_MAX - 1
    THEN INT32_MAX
    ELSE (axis.maximum - axis.minimum + 1) \div 2

\* the value joy_axis_event compares with the thresholds
AxisCalibrated(axis, value) ==
    IF axis.digital
    THEN IF axis.calibration.invert THEN -value ELSE value
    ELSE IF axis.calibration.invert
         THEN LET center == axis.maximum - HalfRange(axis)
              IN center - value
         ELSE value

\* an axis whose lower threshold is exclusive
C12_Mutant_AxisDirection(axis, value) ==
    LET v == AxisCalibrated(axis, value)
    IN IF axis.digital
       THEN IF v < 0 THEN "JOY_AXIS_NEGATIVE"
            ELSE IF v > 0 THEN "JOY_AXIS_POSITIVE"
            ELSE "JOY_AXIS_MIDDLE"
       ELSE IF v < axis.calibration.negative THEN "JOY_AXIS_NEGATIVE"
            ELSE IF v >= axis.calibration.positive THEN "JOY_AXIS_POSITIVE"
            ELSE "JOY_AXIS_MIDDLE"

AxisDirection(axis, value) ==
    LET v == AxisCalibrated(axis, value)
    IN IF axis.digital
       THEN IF v < 0 THEN "JOY_AXIS_NEGATIVE"
            ELSE IF v > 0 THEN "JOY_AXIS_POSITIVE"
            ELSE "JOY_AXIS_MIDDLE"
       ELSE IF v <= axis.calibration.negative THEN "JOY_AXIS_NEGATIVE"
            ELSE IF v >= axis.calibration.positive THEN "JOY_AXIS_POSITIVE"
            ELSE "JOY_AXIS_MIDDLE"

\* an axis event that presses the new direction before it releases the old
\* one
C19_Mutant_joy_axis_event(S, d, k, value, delay) ==
    LET axis == S.devs[d].axes[k]
        direction == AxisDirection(axis, value)
        prev == axis.prev
        joyport == S.devs[d].joyport
    IN IF direction = prev THEN S
       ELSE LET S1 == IF direction = "JOY_AXIS_POSITIVE"
                      THEN joy_perform_event(S, axis.positive, joyport, 1, delay)
                      ELSE S
                S2 == IF direction = "JOY_AXIS_NEGATIVE"
                      THEN joy_perform_event(S1, axis.negative, joyport, 1, delay)
                      ELSE S1
                S3 == IF prev = "JOY_AXIS_POSITIVE"
                      THEN joy_perform_event(S2, axis.positive, joyport, 0, delay)
                      ELSE S2
                S4 == IF prev = "JOY_AXIS_NEGATIVE"
                      THEN joy_perform_event(S3, axis.negative, joyport, 0, delay)
                      ELSE S3
            IN [S4 EXCEPT !.devs[d].axes[k].prev = direction]

\* the axis is axes[k] of device d (both counted from 1)
joy_axis_event(S, d, k, value, delay) ==
    LET axis == S.devs[d].axes[k]
        direction == AxisDirection(axis, value)
        prev == axis.prev
        joyport == S.devs[d].joyport
    IN IF direction = prev THEN S
       ELSE LET S1 == IF prev = "JOY_AXIS_POSITIVE"
                      THEN joy_perform_event(S, axis.positive, joyport, 0, delay)
                      ELSE S
                S2 == IF prev = "JOY_AXIS_NEGATIVE"
                      THEN joy_perform_event(S1, axis.negative, joyport, 0, delay)
                      ELSE S1
                S3 == IF direction = "JOY_AXIS_POSITIVE"
                      THEN joy_perform_event(S2, axis.positive, joyport, 1, delay)
                      ELSE S2
                S4 == IF direction = "JOY_AXIS_NEGATIVE"
                      THEN joy_perform_event(S3, axis.negative, joyport, 1, delay)
                      ELSE S3
            IN [S4 EXCEPT !.devs[d].axes[k].prev = direction]

joy_button_event(S, d, k, value, delay) ==
    LET button == S.devs[d].buttons[k]
        pressed == IF value # 0 THEN 1 ELSE 0
    IN IF value # button.prev
       THEN [joy_perform_event(S, button.mapping, S.devs[d].joyport, pressed, delay)
               EXCEPT !.devs[d].buttons[k].prev = value]
       ELSE S

\* one direction of joy_hat_event: the mapping is released (value 0) or
\* pressed (value 1) when the bit of the direction went that way
HatStep(S, mapping, joyport, prev, value, bit, press, delay) ==
    IF press
    THEN IF ~HasBit(prev, bit) /\ HasBit(value, bit)
         THEN joy_perform_event(S, mapping, joyport, 1, delay) ELSE S
    ELSE IF HasBit(prev, bit) /\ ~HasBit(value, bit)
         THEN joy_perform_event(S, mapping, joyport, 0, delay) ELSE S

joy_hat_event(S, d, k, value, delay) ==
    LET hat == S.devs[d].hats[k]
        joyport == S.devs[d].joyport
        prev == hat.prev
    IN IF value = prev THEN S
       ELSE LET R1 == HatStep(S, hat.up, joyport, prev, value, 0, FALSE, delay)
                R2 == HatStep(R1, hat.down, joyport, prev, value, 1, FALSE, delay)
                R3 == HatStep(R2, hat.left, joyport, prev, value, 2, FALSE, delay)
                R4 == HatStep(R3, hat.right, joyport, prev, value, 3, FALSE, delay)
                P1 == HatStep(R4, hat.up, joyport, prev, value, 0, TRUE, delay)
                P2 == HatStep(P1, hat.down, joyport, prev, value, 1, TRUE, delay)
                P3 == HatStep(P2, hat.left, joyport, prev, value, 2, TRUE, delay)
                P4 == HatStep(P3, hat.right, joyport, prev, value, 3, TRUE, delay)
            IN [P4 EXCEPT !.devs[d].hats[k].prev = value]

(* ---------------------------------------------------------------------- *)
(* Snapshot modules (joystick.c 2806-2853)                                 *)
(* ---------------------------------------------------------------------- *)

\* the module JOYSTICK<port> is created with the version of the dump and
\* holds the current value of the port as one 16 bit word
joystick_snapshot_write_module(S, port) ==
    [S EXCEPT !.snapshot[port] =
                  [exists |-> TRUE, major |-> DUMP_VER_MAJOR,
                   minor |-> DUMP_VER_MINOR,
                   data |-> S.value[port] % (UINT16_MAX + 1)],
              !.ret = 0]

\* the module JOYSTICK<port> is opened, its version compared, and its word
\* stored in joystick_value[port + 1]
joystick_snapshot_read_module(S, port) ==
    LET m == S.snapshot[port]
    IN IF ~m.exists THEN [S EXCEPT !.ret = -1]
       ELSE IF ~(m.major = DUMP_VER_MAJOR /\ m.minor = DUMP_VER_MINOR)
       THEN [S EXCEPT !.ret = -1]
       ELSE [S EXCEPT !.value[port + 1] = m.data, !.ret = 0]

(* ---------------------------------------------------------------------- *)
(* Keysets (joystick.c 424-681)                                            *)
(* ---------------------------------------------------------------------- *)

\* joypad_bits[], indexed by column + 1
joypad_bits ==
    <<JOYPAD_FIRE, JOYPAD_S + JOYPAD_W, JOYPAD_S, JOYPAD_S + JOYPAD_E,
      JOYPAD_W, JOYPAD_E, JOYPAD_N + JOYPAD_W, JOYPAD_N, JOYPAD_N + JOYPAD_E,
      JOYPAD_FIRE2, JOYPAD_FIRE3, 128, 256, 512, 1024, 2048>>

\* joykeys[][]: the resources KeySet1<dir> and KeySet2<dir>; a column
\* without a key holds ARCHDEP_KEYBOARD_SYM_NONE
joykeys ==
    [k \in Keysets |-> [column \in KeysetColumns |->
        IF k = 0 /\ column = JOYSTICK_KEYSET_N THEN "w"
        ELSE IF k = 0 /\ column = JOYSTICK_KEYSET_S THEN "s"
        ELSE IF k = 0 /\ column = JOYSTICK_KEYSET_W THEN "a"
        ELSE IF k = 0 /\ column = JOYSTICK_KEYSET_NE THEN "e"
        ELSE IF k = 1 /\ column = JOYSTICK_KEYSET_S THEN "s"
        ELSE "ARCHDEP_KEYBOARD_SYM_NONE"]]

RECURSIVE getjoyvalue_from(_, _)
getjoyvalue_from(status, column) ==
    IF column >= JOYSTICK_KEYSET_NUM_KEYS THEN 0
    ELSE BitOr(IF status[column] # 0 THEN joypad_bits[column + 1] ELSE 0,
               getjoyvalue_from(status, column + 1))

getjoyvalue(status) == getjoyvalue_from(status, 0)

\* the first column of the keyset that holds the key, -1 when none does
KeysetColumn(key, keysetnum) ==
    LET hit == {column \in KeysetColumns : joykeys[keysetnum][column] = key}
    IN IF hit = {} THEN -1
       ELSE CHOOSE column \in hit : \A other \in hit : column <= other

\* value &= mask for both opposite pairs; the masks are kept as 16 bit
\* values, the values they are applied to have no higher bits
KeysetMasked(S, keysetnum, value) ==
    LET v1 == IF BitAnd(value, JOYPAD_N) # 0 /\ BitAnd(value, JOYPAD_S) # 0
              THEN BitAnd(value, S.vmask[keysetnum]) ELSE value
    IN IF BitAnd(v1, JOYPAD_E) # 0 /\ BitAnd(v1, JOYPAD_W) # 0
       THEN BitAnd(v1, S.hmask[keysetnum]) ELSE v1

\* the masks remember the side opposite to the last key pressed, and the
\* masked value lets that key win over an opposite one still held
C15_Mutant_check_set(S, key, keysetnum, joyport, delay) ==
    LET column == KeysetColumn(key, keysetnum)
    IN IF S.joykeys_enable = 0 \/ column = -1 THEN [S EXCEPT !.ret = 0]
       ELSE LET S1 == [S EXCEPT !.status[keysetnum][column] = 1]
                value == getjoyvalue(S1.status[keysetnum])
                S2 == IF S.opposite = 0
                      THEN [S1 EXCEPT
                              !.vmask[keysetnum] =
                                  IF column \in {JOYSTICK_KEYSET_N, JOYSTICK_KEYSET_NW,
                                                 JOYSTICK_KEYSET_NE}
                                  THEN BitNot16(JOYPAD_S)
                                  ELSE IF column \in {JOYSTICK_KEYSET_S, JOYSTICK_KEYSET_SW,
                                                      JOYSTICK_KEYSET_SE}
                                  THEN BitNot16(JOYPAD_N)
                                  ELSE @]
                      ELSE S1
                v == IF S.opposite = 0 THEN KeysetMasked(S2, keysetnum, value) ELSE value
                S3 == [S2 EXCEPT !.calls =
                         Append(@, Call("joystick_set_value_absolute", <<joyport, v>>))]
            IN [joystick_set_value_absolute(S3, joyport, v % (UINT16_MAX + 1), delay)
                  EXCEPT !.ret = 1]

\* called on key-down event
joystick_check_set(S, key, keysetnum, joyport, delay) ==
    LET column == KeysetColumn(key, keysetnum)
    IN IF S.joykeys_enable = 0 \/ column = -1 THEN [S EXCEPT !.ret = 0]
       ELSE LET S1 == [S EXCEPT !.status[keysetnum][column] = 1]
                value == getjoyvalue(S1.status[keysetnum])
                S2 == IF S.opposite = 0
                      THEN [S1 EXCEPT
                              !.vmask[keysetnum] =
                                  IF column \in {JOYSTICK_KEYSET_N, JOYSTICK_KEYSET_NW,
                                                 JOYSTICK_KEYSET_NE}
                                  THEN BitNot16(JOYPAD_S)
                                  ELSE IF column \in {JOYSTICK_KEYSET_S, JOYSTICK_KEYSET_SW,
                                                      JOYSTICK_KEYSET_SE}
                                  THEN BitNot16(JOYPAD_N)
                                  ELSE @,
                              !.hmask[keysetnum] =
                                  IF column \in {JOYSTICK_KEYSET_W, JOYSTICK_KEYSET_SW,
                                                 JOYSTICK_KEYSET_NW}
                                  THEN BitNot16(JOYPAD_E)
                                  ELSE IF column \in {JOYSTICK_KEYSET_E, JOYSTICK_KEYSET_SE,
                                                      JOYSTICK_KEYSET_NE}
                                  THEN BitNot16(JOYPAD_W)
                                  ELSE @]
                      ELSE S1
                v == IF S.opposite = 0 THEN KeysetMasked(S2, keysetnum, value) ELSE value
                S3 == [S2 EXCEPT !.calls =
                         Append(@, Call("joystick_set_value_absolute", <<joyport, v>>))]
            IN [joystick_set_value_absolute(S3, joyport, v % (UINT16_MAX + 1), delay)
                  EXCEPT !.ret = 1]

\* the key released stays marked as held
C38_Mutant_check_clr(S, key, keysetnum, joyport, delay) ==
    LET column == KeysetColumn(key, keysetnum)
    IN IF S.joykeys_enable = 0 \/ column = -1 THEN [S EXCEPT !.ret = 0]
       ELSE LET value == getjoyvalue(S.status[keysetnum])
                v == IF S.opposite = 0 THEN KeysetMasked(S, keysetnum, value) ELSE value
                S3 == [S EXCEPT !.calls =
                         Append(@, Call("joystick_set_value_absolute", <<joyport, v>>))]
            IN [joystick_set_value_absolute(S3, joyport, v % (UINT16_MAX + 1), delay)
                  EXCEPT !.ret = 1]

\* called on key-up event
joystick_check_clr(S, key, keysetnum, joyport, delay) ==
    LET column == KeysetColumn(key, keysetnum)
    IN IF S.joykeys_enable = 0 \/ column = -1 THEN [S EXCEPT !.ret = 0]
       ELSE LET S1 == [S EXCEPT !.status[keysetnum][column] = 0]
                value == getjoyvalue(S1.status[keysetnum])
                v == IF S.opposite = 0 THEN KeysetMasked(S1, keysetnum, value) ELSE value
                S3 == [S1 EXCEPT !.calls =
                         Append(@, Call("joystick_set_value_absolute", <<joyport, v>>))]
            IN [joystick_set_value_absolute(S3, joyport, v % (UINT16_MAX + 1), delay)
                  EXCEPT !.ret = 1]

joystick_joypad_clear(S) ==
    [S EXCEPT !.status = [k \in Keysets |-> [column \in KeysetColumns |-> 0]]]

set_joykeys_enable(S, val) ==
    [S EXCEPT !.joykeys_enable = IF val # 0 THEN 1 ELSE 0, !.ret = 0]

(* ---------------------------------------------------------------------- *)
(* Resources JoyDevice<n> (joystick.c 835-890)                             *)
(* ---------------------------------------------------------------------- *)

\* once joystick_init has run the old device is closed and the new one is
\* opened, both noted in calls
set_joystick_device(S, val, port_idx) ==
    IF val = S.port_map[port_idx] THEN S
    ELSE LET old == S.port_map[port_idx]
             olddev == old - JOYDEV_REALJOYSTICK_MIN
             S1 == IF old >= JOYDEV_REALJOYSTICK_MIN /\ olddev < Len(S.devs)
                   THEN [S EXCEPT
                           !.devs[olddev + 1].joyport = -1,
                           !.calls = IF S.init_done
                                     THEN Append(@, Call("joystick_device_close", olddev))
                                     ELSE @]
                   ELSE S
             S2 == [S1 EXCEPT !.port_map[port_idx] = val]
             newdev == val - JOYDEV_REALJOYSTICK_MIN
         IN IF val >= JOYDEV_REALJOYSTICK_MIN /\ newdev < Len(S2.devs)
            THEN [S2 EXCEPT
                    !.devs[newdev + 1].joyport = port_idx,
                    !.port_map = [i \in AllPorts |->
                                    IF i # port_idx /\ S2.port_map[i] = val
                                    THEN JOYDEV_NONE ELSE S2.port_map[i]],
                    !.calls = IF S.init_done
                              THEN Append(@, Call("joystick_device_open", newdev))
                              ELSE @]
            ELSE S2

joystick_set_hook(S, port, val, mask) ==
    [S EXCEPT !.hooks.hook[port] = val, !.hooks.mask[port] = mask]

(* ---------------------------------------------------------------------- *)
(* State after construction                                                *)
(* ---------------------------------------------------------------------- *)

\* everything but the registry, the environment flags and the two
\* registered parameters, as the static initialisers leave it
InitCommon ==
    /\ joystick_value = ZeroPorts
    /\ latch_joystick_value = InitialValues
    /\ network_joystick_value = InitialValues
    /\ joystick_alarm = 0
    /\ joystick_hooks = [hook |-> ZeroPorts, mask |-> ZeroPorts, state |-> ZeroPorts]
    /\ joystick_opposite_enable = 0
    /\ gtkjoy_pins = [p \in AllPorts |-> [i \in AllPins |-> 0]]
    /\ playback = FALSE
    /\ joymap = <<>>
    /\ snapshot = NoModules
    /\ joystick_autofire_enable = ZeroPorts
    /\ joystick_autofire_mode = [p \in AllPorts |-> "JOYSTICK_AUTOFIRE_MODE_PRESS"]
    /\ joystick_autofire_speed = ZeroPorts
    /\ maincpu_clk = 0
    /\ joykeys_enable = 1
    /\ joypad_status = [k \in Keysets |-> [column \in KeysetColumns |-> 0]]
    /\ joypad_vmask = [k \in Keysets |-> 0]
    /\ joypad_hmask = [k \in Keysets |-> 0]
    /\ backend_joydev = joystick_device_new
    /\ joystick_axis_value = [port \in 0 .. 1 |-> [pot \in 0 .. 1 |-> 128]]
    /\ calls = <<>>
    /\ last = [op |-> "init"]

(* ---------------------------------------------------------------------- *)
(* Raw writes and the latch                                                *)
(* ---------------------------------------------------------------------- *)

\* values the raw writes carry
WriteValues == {0, JOYPAD_N, JOYPAD_FIRE}

WriteOps ==
    {"joystick_set_value_absolute", "joystick_set_value_or", "joystick_set_value_and"}

Write_absolute(port, value, delay) ==
    /\ Install(joystick_set_value_absolute(Cur, port, value, delay))
    /\ last' = [op |-> "joystick_set_value_absolute", port |-> port]
    /\ UNCHANGED joymap

Write_or(port, value, delay) ==
    /\ Install(joystick_set_value_or(Cur, port, value, delay))
    /\ last' = [op |-> "joystick_set_value_or", port |-> port]
    /\ UNCHANGED joymap

Write_and(port, value, delay) ==
    /\ Install(joystick_set_value_and(Cur, port, value, delay))
    /\ last' = [op |-> "joystick_set_value_and", port |-> port]
    /\ UNCHANGED joymap

\* the alarm armed by joystick_process_latch or by the delayed playback
\* comes due and the alarm context runs joystick_latch_handler
LatchAlarm ==
    /\ joystick_alarm > 0
    /\ Install(joystick_latch_handler(Cur))
    /\ last' = [op |-> "joystick_latch_handler"]
    /\ UNCHANGED joymap

\* records the network layer can deliver: the latch record of a peer
NetData ==
    {[last_used_joyport |-> p, values |-> [ZeroPorts EXCEPT ![0] = v0, ![1] = v1]] :
        p \in {0, 1, JOYPORT_MAX_PORTS}, v0 \in {0, JOYPAD_W}, v1 \in {0, JOYPAD_FIRE2}}

\* the network layer delivers a recorded joystick_values_t
DelayedPlayback(data) ==
    /\ netconn
    /\ Install(joystick_event_delayed_playback(Cur, data))
    /\ last' = [op |-> "joystick_event_delayed_playback"]
    /\ UNCHANGED joymap

Write ==
    \E port \in UsedPorts, value \in WriteValues, delay \in 1 .. CyclesPerFrame :
        \/ Write_absolute(port, value, delay)
        \/ Write_or(port, value, delay)
        \/ Write_and(port, value, delay)

\* local play: not networked, no playback
InitLocal ==
    /\ InitCommon
    /\ joystick_port_map = NoPortMap
    /\ joystick_init_done = TRUE
    /\ netconn = FALSE
    /\ joystick_delay = 0
    /\ joystick_machine_func \in BOOLEAN
    /\ joystick_devices = <<>>

NextLocal ==
    \/ Write
    \/ LatchAlarm

SpecLocal == InitLocal /\ [][NextLocal]_vars

\* network play: connected throughout, the delay registered by the machine
InitNet ==
    /\ InitCommon
    /\ joystick_port_map = NoPortMap
    /\ joystick_init_done = TRUE
    /\ netconn = TRUE
    /\ joystick_delay = CyclesPerFrame
    /\ joystick_machine_func = TRUE
    /\ joystick_devices = <<>>

NextNet ==
    \/ Write
    \/ LatchAlarm
    \/ \E data \in NetData : DelayedPlayback(data)

SpecNet == InitNet /\ [][NextNet]_vars

(* ---------------------------------------------------------------------- *)
(* Claims on the latch                                                     *)
(* ---------------------------------------------------------------------- *)

\* C9: latch separation in local play.  A raw write (absolute, OR, AND)
\* changes no latched value but that of its port and leaves the current
\* value of every port, as get_joystick_value returns it, unchanged; the
\* current values change in no step but the latch, and the latch makes the
\* current value of every port equal to its latched value and calls the
\* registered machine callback.
C9_LatchSeparation ==
    [][ /\ last'.op \in WriteOps =>
            /\ joystick_value' = joystick_value
            /\ \A q \in AllPorts :
                  /\ get_joystick_value(Cur, q)' = get_joystick_value(Cur, q)
                  /\ q /= last'.port =>
                       latch_joystick_value'.values[q] = latch_joystick_value.values[q]
        /\ joystick_value' /= joystick_value => last'.op = "joystick_latch_handler"
        /\ last'.op = "joystick_latch_handler" =>
            /\ \A q \in AllPorts :
                  /\ joystick_value'[q] = latch_joystick_value'.values[q]
                  /\ get_joystick_value(Cur, q)' = latch_joystick_value.values[q]
            /\ joystick_machine_func =>
                  \E i \in 1 .. Len(calls') : calls'[i].fn = "joystick_machine_func"
      ]_vars

\* the latch has run after writes to both ports and changed both current
\* values, with the machine callback registered and called
C9_Witness ==
    /\ last.op = "joystick_latch_handler"
    /\ joystick_machine_func
    /\ calls[1].fn = "joystick_machine_func"
    /\ joystick_value[0] = JOYPAD_FIRE + JOYPAD_N
    /\ joystick_value[1] = JOYPAD_FIRE
    /\ joystick_value = latch_joystick_value.values

NewAxis(code, name, digital) ==
    [joystick_axis_init EXCEPT
       !.code = code, !.name = name, !.digital = digital,
       !.minimum = IF digital THEN -1 ELSE -4,
       !.maximum = IF digital THEN 1 ELSE 3]

NewButton(code, name) == [joystick_button_init EXCEPT !.code = code, !.name = name]

NewHat(code, name) == [joystick_hat_init EXCEPT !.code = code, !.name = name]

RECURSIVE AddAxes(_, _, _, _)
AddAxes(joydev, n, i, rev) ==
    IF i > n THEN joydev
    ELSE AddAxes(joystick_device_add_axis(
                    joydev, NewAxis(IF rev THEN n - i + 1 ELSE i, i, i % 2 = 0)),
                 n, i + 1, rev)

RECURSIVE AddButtons(_, _, _, _)
AddButtons(joydev, n, i, rev) ==
    IF i > n THEN joydev
    ELSE AddButtons(joystick_device_add_button(
                       joydev, NewButton(IF rev THEN n - i + 1 ELSE i, i)),
                    n, i + 1, rev)

RECURSIVE AddHats(_, _, _, _)
AddHats(joydev, n, i, rev) ==
    IF i > n THEN joydev
    ELSE AddHats(joystick_device_add_hat(
                    joydev, NewHat(IF rev THEN n - i + 1 ELSE i, i)),
                 n, i + 1, rev)

\* the device a backend hands to joystick_device_register: axes, buttons
\* and hats added in the order of its enumeration (rev: codes descending)
HostDevice(name, shape, rev, nosort) ==
    AddHats(AddButtons(AddAxes([joystick_device_new EXCEPT !.name = name,
                                                           !.disable_sort = nosort],
                               shape[1], 1, rev),
                       shape[2], 1, rev),
            shape[3], 1, rev)

\* numbers of axes, buttons and hats of the devices offered
DeviceShapes ==
    {<<0, 0, 0>>, <<2, 0, 0>>, <<1, 1, 0>>, <<1, 0, 1>>,
     <<2, 1, 0>>, <<3, 4, 0>>, <<0, 1, 1>>, <<2, 3, 1>>, <<1, 2, 2>>}

Register(shape, rev, nosort) ==
    /\ Len(joystick_devices) < MaxDevices
    /\ LET joydev == HostDevice(Len(joystick_devices), shape, rev, nosort)
       IN \E axes \in QsortResults(joydev.axes),
             buttons \in QsortResults(joydev.buttons),
             hats \in QsortResults(joydev.hats) :
            LET S == joystick_device_register(Cur, joydev, axes, buttons, hats)
            IN /\ Install(S)
               /\ last' = [op |-> "joystick_device_register", ret |-> S.ret,
                           num_axes |-> shape[1], num_buttons |-> shape[2],
                           num_hats |-> shape[3]]
    /\ UNCHANGED joymap

InitRegistry ==
    /\ InitCommon
    /\ joystick_port_map = NoPortMap
    /\ joystick_init_done = TRUE
    /\ netconn = FALSE
    /\ joystick_delay = 0
    /\ joystick_machine_func = FALSE
    /\ joystick_devices = <<>>

NextRegistry ==
    \E shape \in DeviceShapes, rev \in BOOLEAN, nosort \in BOOLEAN :
        Register(shape, rev, nosort)

SpecRegistry == InitRegistry /\ [][NextRegistry]_vars

\* the minimum of inputs a registered device has
MinimumInputs(joydev) ==
    Len(joydev.buttons) >= 1 /\ (Len(joydev.axes) >= 2 \/ Len(joydev.hats) >= 1)

\* C4: joystick_device_register accepts a device iff it has at least one
\* button and at least two axes or one hat.  A rejected device is closed
\* and freed, the call returns false and the registry keeps its count and
\* every entry; an accepted device is appended; every device in the
\* registry has the minimum inputs in every reachable state.
C4_RegisterMinimumInputs ==
    /\ [](\A i \in 1 .. Len(joystick_devices) : MinimumInputs(joystick_devices[i]))
    /\ [][ last'.op = "joystick_device_register" =>
             /\ last'.ret = (/\ last'.num_buttons >= 1
                             /\ (last'.num_axes >= 2 \/ last'.num_hats >= 1))
             /\ ~last'.ret =>
                  /\ joystick_devices' = joystick_devices
                  /\ Len(calls') = 2
                  /\ calls'[1].fn = "joy_driver.close"
                  /\ calls'[2].fn = "joystick_device_free"
             /\ last'.ret =>
                  /\ Len(joystick_devices') = Len(joystick_devices) + 1
                  /\ SubSeq(joystick_devices', 1, Len(joystick_devices)) = joystick_devices
                  /\ LET joydev == joystick_devices'[Len(joystick_devices')]
                     IN /\ Len(joydev.axes) = last'.num_axes
                        /\ Len(joydev.buttons) = last'.num_buttons
                        /\ Len(joydev.hats) = last'.num_hats
         ]_vars

\* a device with a hat and no button was rejected while the registry
\* held a device
C4_Witness ==
    /\ last.op = "joystick_device_register"
    /\ ~last.ret
    /\ last.num_hats = 1 /\ last.num_buttons = 0
    /\ Len(joystick_devices) = 1
    /\ calls[1].fn = "joy_driver.close"

IsPin(mapping, pin) == mapping.action = JOY_ACTION_JOYSTICK /\ mapping.joy_pin = pin

IsNone(mapping) == mapping.action = JOY_ACTION_NONE

\* the default mapping of C5 on a registered device
DefaultMapped(joydev) ==
    /\ \A i \in 1 .. Len(joydev.hats) :
          IF i = 1
          THEN /\ IsPin(joydev.hats[i].up, JOYSTICK_DIRECTION_UP)
               /\ IsPin(joydev.hats[i].down, JOYSTICK_DIRECTION_DOWN)
               /\ IsPin(joydev.hats[i].left, JOYSTICK_DIRECTION_LEFT)
               /\ IsPin(joydev.hats[i].right, JOYSTICK_DIRECTION_RIGHT)
          ELSE /\ IsNone(joydev.hats[i].up) /\ IsNone(joydev.hats[i].down)
               /\ IsNone(joydev.hats[i].left) /\ IsNone(joydev.hats[i].right)
    /\ \A i \in 1 .. Len(joydev.axes) :
          /\ joydev.axes[i].pot = 0
          /\ IF Len(joydev.hats) = 0 /\ i = 1
             THEN /\ IsPin(joydev.axes[i].negative, JOYSTICK_DIRECTION_LEFT)
                  /\ IsPin(joydev.axes[i].positive, JOYSTICK_DIRECTION_RIGHT)
             ELSE IF Len(joydev.hats) = 0 /\ i = 2
             THEN /\ IsPin(joydev.axes[i].negative, JOYSTICK_DIRECTION_UP)
                  /\ IsPin(joydev.axes[i].positive, JOYSTICK_DIRECTION_DOWN)
             ELSE IsNone(joydev.axes[i].negative) /\ IsNone(joydev.axes[i].positive)
    /\ \A i \in 1 .. Len(joydev.buttons) :
          CASE i = 1 -> IsPin(joydev.buttons[i].mapping, JOYPORT_FIRE)
            [] i = 2 -> IsPin(joydev.buttons[i].mapping, JOYPORT_FIRE_POTX)
            [] i = 3 -> IsPin(joydev.buttons[i].mapping, JOYPORT_FIRE_POTY)
            [] OTHER -> IsNone(joydev.buttons[i].mapping)

\* ascending event codes, the indexes regenerated
Ordered(seq) ==
    \A i \in 1 .. Len(seq) :
        /\ seq[i].index = i - 1
        /\ i < Len(seq) => seq[i].code <= seq[i + 1].code

\* C5: every device registered without a customize hook carries the default
\* mapping: with a hat, hat 0 maps up/down/left/right to the direction pins
\* and no axis has a directional mapping; without a hat axis 0 maps
\* negative/positive to left/right and axis 1 negative/positive to up/down;
\* buttons 0, 1, 2 map to fire, fire 2 (pot X) and fire 3 (pot Y); every
\* other slot is unmapped.  Unless the device disables sorting, input 0 is
\* the input with the lowest event code.
C5_DefaultMapping ==
    \A i \in 1 .. Len(joystick_devices) :
        /\ DefaultMapped(joystick_devices[i])
        /\ ~joystick_devices[i].disable_sort =>
              /\ Ordered(joystick_devices[i].axes)
              /\ Ordered(joystick_devices[i].buttons)
              /\ Ordered(joystick_devices[i].hats)

\* a device with three axes and four buttons enumerated with descending
\* codes and a device with two hats and an axis are registered
C5_Witness ==
    /\ Len(joystick_devices) = 2
    /\ Len(joystick_devices[1].axes) = 3
    /\ Len(joystick_devices[1].buttons) = 4
    /\ joystick_devices[1].axes[1].name = 3
    /\ IsPin(joystick_devices[1].axes[2].negative, JOYSTICK_DIRECTION_UP)
    /\ IsNone(joystick_devices[1].buttons[4].mapping)
    /\ Len(joystick_devices[2].hats) = 2
    /\ IsPin(joystick_devices[2].hats[1].down, JOYSTICK_DIRECTION_DOWN)
    /\ IsNone(joystick_devices[2].axes[1].negative)


(* ---------------------------------------------------------------------- *)
(* Loading, dumping and editing the mappings of registered devices         *)
(* ---------------------------------------------------------------------- *)

\* registration with the one arrangement qsort can leave (distinct codes)
RegisterSorted(S, joydev) ==
    joystick_device_register(S, joydev,
                             CHOOSE axes \in QsortResults(joydev.axes) : TRUE,
                             CHOOSE buttons \in QsortResults(joydev.buttons) : TRUE,
                             CHOOSE hats \in QsortResults(joydev.hats) : TRUE)

\* the registry after a backend registered a stick (two axes, one button)
\* and a pad (one button, one hat)
MapFileDevices ==
    RegisterSorted(
        RegisterSorted([devs |-> <<>>, ret |-> TRUE, calls |-> <<>>],
                       HostDevice(0, <<2, 1, 0>>, FALSE, FALSE)),
        HostDevice(1, <<0, 1, 1>>, FALSE, FALSE)).devs

File(lines) == [exists |-> TRUE, lines |-> lines]

NoFile == [exists |-> FALSE, lines |-> <<>>]

\* lines joy_arch_parse_entry accepts on MapFileDevices
GoodLines ==
    {Line(<<0, 1, 0, 2, 3, 4, 8>>, ""),    \* button: key row 3, column 4, flags 8
     Line(<<0, 0, 0, 1, 16>>, ""),         \* axis 0 positive: fire
     Line(<<0, 0, 1, 6, 2>>, ""),          \* axis 1: pot 2
     Line(<<1, 2, 1, 5>>, "quit"),         \* hat down: UI action
     Line(<<1, 2, 0, 2, 1, 2>>, ""),       \* hat up: key row 1, column 2
     Line(<<1, 1, 0, 4>>, "")}             \* button: UI activate

\* lines joy_arch_parse_entry rejects on MapFileDevices
BadLines ==
    {Line(<<>>, "quit"),                   \* no device number
     Line(<<2, 1, 0, 1, 16>>, ""),         \* unknown device
     Line(<<-1, 1, 0, 1, 16>>, ""),
     Line(<<0>>, ""),                      \* no input type
     Line(<<0, 4, 0, 1, 16>>, ""),         \* unknown input type
     Line(<<0, -1, 0, 1, 16>>, ""),
     Line(<<0, 1>>, ""),                   \* no input index
     Line(<<0, 1, -1, 1, 16>>, ""),
     Line(<<0, 1, 0>>, ""),                \* no action
     Line(<<0, 1, 0, 7>>, ""),             \* unknown action
     Line(<<0, 1, 0, -1>>, ""),
     Line(<<0, 1, 0, 1>>, ""),             \* no pin
     Line(<<0, 1, 0, 1>>, "quit"),
     Line(<<0, 1, 0, 1, 65536>>, ""),      \* pin out of range
     Line(<<0, 1, 0, 1, -1>>, ""),
     Line(<<0, 1, 0, 2, 3>>, ""),          \* key without column
     Line(<<0, 1, 0, 5>>, ""),             \* no UI action name
     Line(<<0, 1, 0, 5>>, "_quit"),        \* name starts with no letter
     Line(<<0, 1, 0, 5, 1>>, ""),
     Line(<<0, 1, 0, 5>>, "nosuchaction"), \* unknown UI action
     Line(<<0, 0, 0, 6>>, ""),             \* no pot number
     Line(<<0, 1, 999, 1, 16>>, ""),       \* no such button
     Line(<<0, 0, 4, 1, 16>>, ""),         \* no such axis
     Line(<<0, 0, 2, 6, 1>>, ""),
     Line(<<0, 2, 0, 1, 1>>, ""),          \* no such hat
     Line(<<1, 2, 4, 1, 1>>, ""),
     Line(<<0, 3, 0, 1, 16>>, "")}         \* a ball

\* the accepted lines of the files a user loads
KeyLine == Line(<<0, 1, 0, 2, 3, 4, 8>>, "")

UiLine == Line(<<1, 2, 1, 5>>, "quit")

\* the files a user loads: one line, a rejected line before the accepted
\* one, the keyword, an unknown keyword, a missing file
UserFiles ==
    {File(<<l>>) : l \in BadLines \cup {KeyLine, UiLine, ClearLine, Line(<<>>, "!OTHER")}}
    \cup {File(<<b, BlankLine, KeyLine>>) : b \in BadLines}
    \cup {NoFile}

\* pot numbers the emulated ports know (0: X, 1: Y)
PotNumbers == {0, 1}

\* the axes the user maps to a pot
PotAxes == {0}

MappingLoad(file) ==
    LET r == joy_arch_mapping_load(joystick_devices, file)
    IN /\ joystick_devices' = r.devs
       /\ last' = [op |-> "joy_arch_mapping_load", ret |-> r.ret,
                   failed |-> r.failed > 0, applied |-> r.applied > 0]
       /\ UNCHANGED <<joystick_value, latch_joystick_value, network_joystick_value,
                      snapshot, joystick_autofire_enable, joystick_autofire_mode,
                      joystick_autofire_speed, maincpu_clk, joykeys_enable,
                      joypad_status, joypad_vmask, joypad_hmask, joystick_port_map,
                      backend_joydev, joystick_axis_value, joystick_init_done,
                      joystick_alarm, joystick_delay, joystick_machine_func,
                      joystick_hooks, joystick_opposite_enable, gtkjoy_pins,
                      netconn, playback, joymap, calls>>

LoadUserFile == \E file \in UserFiles : MappingLoad(file)

\* the file joy_arch_mapping_dump wrote is loaded
LoadDumped ==
    /\ joymap # <<>>
    /\ MappingLoad(File(joymap))

MappingDump ==
    /\ joymap' = joy_arch_mapping_dump(joystick_devices)
    /\ last' = [op |-> "joy_arch_mapping_dump"]
    /\ UNCHANGED <<joystick_value, latch_joystick_value, network_joystick_value,
                   snapshot, joystick_autofire_enable, joystick_autofire_mode,
                   joystick_autofire_speed, maincpu_clk, joykeys_enable,
                   joypad_status, joypad_vmask, joypad_hmask, joystick_port_map,
                   backend_joydev, joystick_axis_value, joystick_init_done,
                   joystick_alarm, joystick_delay, joystick_machine_func,
                   joystick_hooks, joystick_opposite_enable, gtkjoy_pins,
                   joystick_devices, netconn, playback, calls>>

EditUnchanged ==
    UNCHANGED <<joystick_value, latch_joystick_value, network_joystick_value,
                snapshot, joystick_autofire_enable, joystick_autofire_mode,
                joystick_autofire_speed, maincpu_clk, joykeys_enable,
                joypad_status, joypad_vmask, joypad_hmask, joystick_port_map,
                backend_joydev, joystick_axis_value, joystick_init_done,
                joystick_alarm, joystick_delay, joystick_machine_func,
                joystick_hooks, joystick_opposite_enable, gtkjoy_pins,
                netconn, playback, joymap, calls>>

SetPotMapping(joystick_device_num, axis, pot) ==
    /\ joystick_device_num < Len(joystick_devices)
    /\ axis < Len(joystick_devices[joystick_device_num + 1].axes)
    /\ joystick_devices' = joy_set_pot_mapping(joystick_devices,
                                               joystick_device_num, axis, pot)
    /\ last' = [op |-> "joy_set_pot_mapping"]
    /\ EditUnchanged

DeletePotMapping(joystick_device_num, pot) ==
    /\ joystick_devices' = joy_delete_pot_mapping(joystick_devices,
                                                  joystick_device_num, pot)
    /\ last' = [op |-> "joy_delete_pot_mapping"]
    /\ EditUnchanged

InitMapFile ==
    /\ InitCommon
    /\ joystick_port_map = NoPortMap
    /\ joystick_init_done = TRUE
    /\ netconn = FALSE
    /\ joystick_delay = 0
    /\ joystick_machine_func = FALSE
    /\ joystick_devices = MapFileDevices

NextMapFile ==
    \/ LoadUserFile
    \/ MappingDump
    \/ LoadDumped
    \/ \E d \in 0 .. MaxDevices - 1, axis \in PotAxes, pot \in PotNumbers :
          SetPotMapping(d, axis, pot)
    \/ \E d \in -1 .. MaxDevices, pot \in PotNumbers : DeletePotMapping(d, pot)

SpecMapFile == InitMapFile /\ [][NextMapFile]_vars


(* ---------------------------------------------------------------------- *)
(* Claims on the mapping file                                              *)
(* ---------------------------------------------------------------------- *)

\* same action and, for the action, the same payload
SameMapping(m1, m2) ==
    /\ m1.action = m2.action
    /\ m1.action = JOY_ACTION_JOYSTICK => m1.joy_pin = m2.joy_pin
    /\ m1.action = JOY_ACTION_KEYBOARD => m1.key = m2.key
    /\ m1.action = JOY_ACTION_UI_FUNCTION => m1.ui_action = m2.ui_action

SameSlots(devs1, devs2) ==
    /\ Len(devs1) = Len(devs2)
    /\ \A d \in 1 .. Len(devs1) :
          /\ Len(devs1[d].axes) = Len(devs2[d].axes)
          /\ Len(devs1[d].buttons) = Len(devs2[d].buttons)
          /\ Len(devs1[d].hats) = Len(devs2[d].hats)
          /\ \A k \in 1 .. Len(devs1[d].axes) :
                /\ SameMapping(devs1[d].axes[k].positive, devs2[d].axes[k].positive)
                /\ SameMapping(devs1[d].axes[k].negative, devs2[d].axes[k].negative)
                /\ devs1[d].axes[k].pot = devs2[d].axes[k].pot
          /\ \A k \in 1 .. Len(devs1[d].buttons) :
                SameMapping(devs1[d].buttons[k].mapping, devs2[d].buttons[k].mapping)
          /\ \A k \in 1 .. Len(devs1[d].hats) :
                /\ SameMapping(devs1[d].hats[k].up, devs2[d].hats[k].up)
                /\ SameMapping(devs1[d].hats[k].down, devs2[d].hats[k].down)
                /\ SameMapping(devs1[d].hats[k].left, devs2[d].hats[k].left)
                /\ SameMapping(devs1[d].hats[k].right, devs2[d].hats[k].right)

\* C6 (as claimed): in every registry state reached by registration, loads
\* and pot edits, dumping the mappings and loading the dumped file leaves
\* every input slot with the action and the payload it had before the dump.
C6_RoundTrip ==
    SameSlots(joy_arch_mapping_load(joystick_devices,
                                    File(joy_arch_mapping_dump(joystick_devices))).devs,
              joystick_devices)

\* C7: a line joy_arch_parse_entry rejects changes no mapping of any device,
\* a later line of the same file is parsed and applied as if the rejected
\* line were absent, and the load returns 0; a load whose lines were all
\* rejected leaves the registry as it was.
C7_MalformedLine ==
    /\ [](\A b \in BadLines :
            LET entry == joy_arch_parse_entry(joystick_devices, b)
                alone == joy_arch_mapping_load(joystick_devices, File(<<b>>))
            IN /\ ~entry.result
               /\ entry.devs = joystick_devices
               /\ alone.devs = joystick_devices
               /\ alone.ret = 0
               /\ \A g \in GoodLines :
                     LET both == joy_arch_mapping_load(joystick_devices, File(<<b, g>>))
                         good == joy_arch_parse_entry(joystick_devices, g)
                     IN /\ good.result
                        /\ both.devs = good.devs
                        /\ both.failed = 1 /\ both.applied = 1
                        /\ both.ret = 0)
    /\ [][last'.op = "joy_arch_mapping_load" /\ last'.failed
            => /\ last'.ret = 0
               /\ ~last'.applied => joystick_devices' = joystick_devices]_vars

\* a file with a rejected line was loaded and its later line took effect
C7_Witness ==
    /\ last.op = "joy_arch_mapping_load"
    /\ last.failed /\ last.applied /\ last.ret = 0
    /\ joystick_devices[1].buttons[1].mapping.action = JOY_ACTION_KEYBOARD
    /\ joystick_devices[1].buttons[1].mapping.key = <<3, 4, 8>>

Unmapped(devs) ==
    \A d \in 1 .. Len(devs) :
       /\ \A k \in 1 .. Len(devs[d].axes) :
             /\ devs[d].axes[k].positive.action = JOY_ACTION_NONE
             /\ devs[d].axes[k].negative.action = JOY_ACTION_NONE
             /\ devs[d].axes[k].pot = 0
       /\ \A k \in 1 .. Len(devs[d].buttons) :
             devs[d].buttons[k].mapping.action = JOY_ACTION_NONE
       /\ \A k \in 1 .. Len(devs[d].hats) :
             /\ devs[d].hats[k].up.action = JOY_ACTION_NONE
             /\ devs[d].hats[k].down.action = JOY_ACTION_NONE
             /\ devs[d].hats[k].left.action = JOY_ACTION_NONE
             /\ devs[d].hats[k].right.action = JOY_ACTION_NONE

\* C8 (as claimed): after a file holding the line !CLEAR is loaded, both
\* directional mappings and the pot target of every axis, the mapping of
\* every button and the four mappings of every hat are none.
C8_ClearUnmapsAll ==
    Unmapped(joy_arch_mapping_load(joystick_devices, File(<<ClearLine>>)).devs)


\* the input slots of the devices: a direction of an axis, the pot target
\* of an axis, a button, a direction of a hat (device and input from 0)
Slots(devs) ==
    UNION {
        {[d |-> d - 1, kind |-> "axis", k |-> k - 1, dir |-> dir] :
            k \in 1 .. Len(devs[d].axes), dir \in {"positive", "negative"}}
        \cup {[d |-> d - 1, kind |-> "pot", k |-> k - 1, dir |-> ""] :
            k \in 1 .. Len(devs[d].axes)}
        \cup {[d |-> d - 1, kind |-> "button", k |-> k - 1, dir |-> ""] :
            k \in 1 .. Len(devs[d].buttons)}
        \cup {[d |-> d - 1, kind |-> "hat", k |-> k - 1, dir |-> dir] :
            k \in 1 .. Len(devs[d].hats), dir \in {"up", "down", "left", "right"}}
        : d \in 1 .. Len(devs)}

\* the slot gets the joystick pin (a pot slot: the pot number)
Put(devs, s, pin) ==
    LET m(old) == [old EXCEPT !.action = JOY_ACTION_JOYSTICK, !.joy_pin = pin]
    IN CASE s.kind = "pot" -> [devs EXCEPT ![s.d + 1].axes[s.k + 1].pot = pin]
         [] s.kind = "button" -> [devs EXCEPT ![s.d + 1].buttons[s.k + 1].mapping = m(@)]
         [] s.kind = "axis" /\ s.dir = "positive" ->
              [devs EXCEPT ![s.d + 1].axes[s.k + 1].positive = m(@)]
         [] s.kind = "axis" /\ s.dir = "negative" ->
              [devs EXCEPT ![s.d + 1].axes[s.k + 1].negative = m(@)]
         [] s.kind = "hat" /\ s.dir = "up" ->
              [devs EXCEPT ![s.d + 1].hats[s.k + 1].up = m(@)]
         [] s.kind = "hat" /\ s.dir = "down" ->
              [devs EXCEPT ![s.d + 1].hats[s.k + 1].down = m(@)]
         [] s.kind = "hat" /\ s.dir = "left" ->
              [devs EXCEPT ![s.d + 1].hats[s.k + 1].left = m(@)]
         [] OTHER -> [devs EXCEPT ![s.d + 1].hats[s.k + 1].right = m(@)]

\* the slot the claim gives input index i of an input type
Resolved(d, type, i, action) ==
    CASE type = JOY_INPUT_AXIS /\ action = JOY_ACTION_POT_AXIS ->
           [d |-> d, kind |-> "pot", k |-> i, dir |-> ""]
      [] type = JOY_INPUT_AXIS /\ action # JOY_ACTION_POT_AXIS ->
           [d |-> d, kind |-> "axis", k |-> i \div 2,
            dir |-> IF i % 2 = 0 THEN "positive" ELSE "negative"]
      [] type = JOY_INPUT_BUTTON -> [d |-> d, kind |-> "button", k |-> i, dir |-> ""]
      [] OTHER -> [d |-> d, kind |-> "hat", k |-> i \div 4,
                   dir |-> <<"up", "down", "left", "right">>[(i % 4) + 1]]

\* input indexes the lines carry
InputIndexes == 0 .. 5

\* every slot unmapped
Blank(devs) ==
    LET cleared == joy_arch_keyword_clear(devs)
    IN [d \in 1 .. Len(devs) |->
          [cleared[d] EXCEPT !.axes = [k \in 1 .. Len(@) |-> [@[k] EXCEPT !.pot = 0]]]]

\* the entries of a dumped file that carry a mapping
MappedEntries(lines) ==
    {n \in 1 .. Len(lines) : IsEntryLine(lines[n]) /\ lines[n].ints[4] # JOY_ACTION_NONE}

MaxPress == 2

\* the loop of joystick_init over the ports: the device a port names is
\* assigned to that port
joystick_init_assign(devs, port, d) == [devs EXCEPT ![d].joyport = port]

\* the joymap file joystick_init loads: the second button is a second fire
\* button, the axis steers left and right
DispatchJoymap ==
    File(<<ClearLine,
           Line(<<0, 0, 0, 1, JOYSTICK_DIRECTION_RIGHT>>, ""),
           Line(<<0, 0, 1, 1, JOYSTICK_DIRECTION_LEFT>>, ""),
           Line(<<0, 1, 0, 1, JOYPORT_FIRE>>, ""),
           Line(<<0, 1, 1, 1, JOYPORT_FIRE>>, ""),
           Line(<<0, 2, 0, 1, JOYSTICK_DIRECTION_UP>>, ""),
           Line(<<0, 2, 1, 1, JOYSTICK_DIRECTION_DOWN>>, "")>>)

\* a pad with one analog axis, two buttons and a hat on port 0
DispatchDevices ==
    joy_arch_mapping_load(
        joystick_init_assign(
            RegisterSorted([devs |-> <<>>, ret |-> TRUE, calls |-> <<>>],
                           HostDevice(0, <<1, 2, 1>>, FALSE, FALSE)).devs,
            0, 1),
        DispatchJoymap).devs

\* raw values a backend passes
AxisValues == {-3, 0, 2, 3}

ButtonValues == {0, 1, 2}

HatValues ==
    {0, JOYSTICK_DIRECTION_UP,
     JOYSTICK_DIRECTION_UP + JOYSTICK_DIRECTION_DOWN,
     JOYSTICK_DIRECTION_UP + JOYPORT_FIRE}

\* the draw of lib_unsigned_rand(1, cycles_per_frame) in a host event
EventDelays == {CyclesPerFrame}

\* no pin of a port has counted more than MaxPress presses
PressBounded(S) ==
    \A p \in UsedPorts, i \in AllPins : S.pins[p][i] <= MaxPress

AxisEvent(d, k, value, delay) ==
    /\ d \in 1 .. Len(joystick_devices)
    /\ k \in 1 .. Len(joystick_devices[d].axes)
    /\ LET S == joy_axis_event(Cur, d, k, value, delay)
       IN /\ PressBounded(S)
          /\ Install(S)
    /\ last' = [op |-> "joy_axis_event"]
    /\ UNCHANGED joymap

ButtonEvent(d, k, value, delay) ==
    /\ d \in 1 .. Len(joystick_devices)
    /\ k \in 1 .. Len(joystick_devices[d].buttons)
    /\ LET S == joy_button_event(Cur, d, k, value, delay)
       IN /\ PressBounded(S)
          /\ Install(S)
    /\ last' = [op |-> "joy_button_event"]
    /\ UNCHANGED joymap

HatEvent(d, k, value, delay) ==
    /\ d \in 1 .. Len(joystick_devices)
    /\ k \in 1 .. Len(joystick_devices[d].hats)
    /\ LET S == joy_hat_event(Cur, d, k, value, delay)
       IN /\ PressBounded(S)
          /\ Install(S)
    /\ last' = [op |-> "joy_hat_event"]
    /\ UNCHANGED joymap

InitDispatch ==
    /\ InitCommon
    /\ joystick_port_map = [NoPortMap EXCEPT ![0] = JOYDEV_REALJOYSTICK_MIN]
    /\ joystick_init_done = TRUE
    /\ netconn = FALSE
    /\ joystick_delay = 0
    /\ joystick_machine_func = FALSE
    /\ joystick_devices = DispatchDevices

NextDispatch ==
    \/ \E d \in 1 .. MaxDevices, k \in 1 .. 2, delay \in EventDelays :
          \/ \E value \in AxisValues : AxisEvent(d, k, value, delay)
          \/ \E value \in ButtonValues : ButtonEvent(d, k, value, delay)
          \/ \E value \in HatValues : HatEvent(d, k, value, delay)
    \/ LatchAlarm

SpecDispatch == InitDispatch /\ [][NextDispatch]_vars


(* ---------------------------------------------------------------------- *)
(* Claims on dispatch                                                      *)
(* ---------------------------------------------------------------------- *)

\* the mappings of the devices on port p, each with the state of its host
\* control: a button is pressed while its stored value is not 0, an axis
\* direction while it is the stored direction, a hat direction while its
\* bit is in the stored mask
PortSlots(p) ==
    UNION {
        {[id |-> <<d, "button", k, 0>>,
          mapping |-> joystick_devices[d].buttons[k].mapping,
          pressed |-> joystick_devices[d].buttons[k].prev # 0] :
             k \in 1 .. Len(joystick_devices[d].buttons)}
        \cup
        {[id |-> <<d, "axis", k, 0>>,
          mapping |-> joystick_devices[d].axes[k].positive,
          pressed |-> joystick_devices[d].axes[k].prev = "JOY_AXIS_POSITIVE"] :
             k \in 1 .. Len(joystick_devices[d].axes)}
        \cup
        {[id |-> <<d, "axis", k, 1>>,
          mapping |-> joystick_devices[d].axes[k].negative,
          pressed |-> joystick_devices[d].axes[k].prev = "JOY_AXIS_NEGATIVE"] :
             k \in 1 .. Len(joystick_devices[d].axes)}
        \cup
        {[id |-> <<d, "hat", k, bit>>,
          mapping |-> (CASE bit = 0 -> joystick_devices[d].hats[k].up
                         [] bit = 1 -> joystick_devices[d].hats[k].down
                         [] bit = 2 -> joystick_devices[d].hats[k].left
                         [] OTHER -> joystick_devices[d].hats[k].right),
          pressed |-> HasBit(joystick_devices[d].hats[k].prev, bit)] :
             k \in 1 .. Len(joystick_devices[d].hats), bit \in 0 .. 3}
        : d \in {e \in 1 .. Len(joystick_devices) : joystick_devices[e].joyport = p}}

\* the values of one pin: 1 << i for the pins of a port
SinglePins == {2 ^ i : i \in AllPins}

\* the mapping presses the pin or the direction opposite to it
Disturbs(mapping, pin) ==
    /\ mapping.action = JOY_ACTION_JOYSTICK
    /\ BitAnd(mapping.joy_pin, pin + joystick_opposite_direction(pin % 16)) # 0

\* C1 (as claimed): two host controls on one port are mapped to the same
\* single pin and nothing else on the port touches that pin or its opposite;
\* in every order of their events the pin is set in the latched value of the
\* port while at least one of the two is pressed (so after both were pressed
\* and one was released), and clear once both are released.
C1_ManyToOne ==
    \A p \in UsedPorts : \A s1, s2 \in PortSlots(p) :
        (/\ s1.id # s2.id
         /\ s1.mapping.action = JOY_ACTION_JOYSTICK
         /\ s2.mapping.action = JOY_ACTION_JOYSTICK
         /\ s1.mapping.joy_pin = s2.mapping.joy_pin
         /\ s1.mapping.joy_pin \in SinglePins
         /\ \A s3 \in PortSlots(p) :
               s3.id \notin {s1.id, s2.id} => ~Disturbs(s3.mapping, s1.mapping.joy_pin))
        => (BitAnd(latch_joystick_value.values[p], s1.mapping.joy_pin) # 0
              <=> (s1.pressed \/ s2.pressed))

\* the calls of joy_perform_event among the calls of the last operation
Performs(c) == SelectSeq(c, LAMBDA e : e.fn = "joy_perform_event")

\* bit of the direction opposite to the direction of bit (N S W E: 0 1 2 3)
OppositeBit(bit) == CASE bit = 0 -> 1 [] bit = 1 -> 0 [] bit = 2 -> 3 [] OTHER -> 2

\* C2: with joystick_opposite_enable off and event playback inactive, from
\* cleared ports, on every port the latched value never holds both up and
\* down nor both left and right; and when the last dispatch of an operation
\* was the press of a pin mapping, every direction of that pin whose
\* opposite is not in the same pin is set in the latched value of the port
\* and its opposite is clear.
C2_OppositeMasking ==
    /\ \A p \in AllPorts :
          /\ ~(HasBit(latch_joystick_value.values[p], 0)
                 /\ HasBit(latch_joystick_value.values[p], 1))
          /\ ~(HasBit(latch_joystick_value.values[p], 2)
                 /\ HasBit(latch_joystick_value.values[p], 3))
    /\ Performs(calls) # <<>> =>
          LET e == Performs(calls)[Len(Performs(calls))].arg
          IN (e[1].action = JOY_ACTION_JOYSTICK /\ ValidPort(e[2]) /\ e[3] # 0) =>
                \A bit \in 0 .. 3 :
                   (HasBit(e[1].joy_pin, bit) /\ ~HasBit(e[1].joy_pin, OppositeBit(bit)))
                   => /\ HasBit(latch_joystick_value.values[e[2]], bit)
                      /\ ~HasBit(latch_joystick_value.values[e[2]], OppositeBit(bit))

\* down was pressed while up was held: down is latched, up is not
C2_Witness ==
    /\ joystick_opposite_enable = 0
    /\ Performs(calls) # <<>>
    /\ LET e == Performs(calls)[Len(Performs(calls))].arg
       IN /\ e[1].action = JOY_ACTION_JOYSTICK
          /\ e[1].joy_pin = JOYSTICK_DIRECTION_DOWN
          /\ e[2] = 0
          /\ e[3] = 1
    /\ gtkjoy_pins[0][0] > 0
    /\ HasBit(latch_joystick_value.values[0], 1)
    /\ ~HasBit(latch_joystick_value.values[0], 0)

\* C3 (as claimed): an axis, button or hat event whose discretized value
\* (axis direction; button raw value nonzero; hat mask of the four direction
\* bits) equals the stored one dispatches nothing: joy_perform_event is not
\* called, whatever the raw value.
C3_Idempotence ==
    [][\A d \in 1 .. MaxDevices, k \in 1 .. 2, delay \in EventDelays :
          /\ \A value \in AxisValues :
                (/\ AxisEvent(d, k, value, delay)
                 /\ AxisDirection(joystick_devices[d].axes[k], value)
                       = joystick_devices[d].axes[k].prev)
                => Performs(calls') = <<>>
          /\ \A value \in ButtonValues :
                (/\ ButtonEvent(d, k, value, delay)
                 /\ (value # 0) = (joystick_devices[d].buttons[k].prev # 0))
                => Performs(calls') = <<>>
          /\ \A value \in HatValues :
                (/\ HatEvent(d, k, value, delay)
                 /\ value % 16 = joystick_devices[d].hats[k].prev % 16)
                => Performs(calls') = <<>>]_vars

(* ---------------------------------------------------------------------- *)
(* Snapshots of the ports                                                  *)
(* ---------------------------------------------------------------------- *)

\* values the ports take before a snapshot is written
SnapshotValues == {0, JOYPAD_FIRE}

SnapshotWrite(port) ==
    /\ Install(joystick_snapshot_write_module(Cur, port))
    /\ last' = [op |-> "joystick_snapshot_write_module", port |-> port]
    /\ UNCHANGED joymap

SnapshotRead(port) ==
    /\ Install(joystick_snapshot_read_module(Cur, port))
    /\ last' = [op |-> "joystick_snapshot_read_module", port |-> port]
    /\ UNCHANGED joymap

InitSnapshot ==
    /\ InitCommon
    /\ joystick_port_map = NoPortMap
    /\ joystick_init_done = TRUE
    /\ netconn = FALSE
    /\ joystick_delay = 0
    /\ joystick_machine_func = FALSE
    /\ joystick_devices = <<>>

NextSnapshot ==
    \/ \E port \in UsedPorts, value \in SnapshotValues, delay \in 1 .. CyclesPerFrame :
          Write_absolute(port, value, delay)
    \/ LatchAlarm
    \/ \E port \in UsedPorts : SnapshotWrite(port)
    \/ \E port \in UsedPorts : SnapshotRead(port)

SpecSnapshot == InitSnapshot /\ [][NextSnapshot]_vars

\* C11: snapshot round trip.  Reading the module of port p, written
\* before, makes the current value of port p the value the module holds
\* (the value of the port when the module was written) and changes the
\* current value of no other port.
C11_SnapshotRoundTrip ==
    [][ \A p \in UsedPorts :
          (/\ last'.op = "joystick_snapshot_read_module"
           /\ last'.port = p
           /\ snapshot[p].exists)
          => /\ joystick_value'[p] = snapshot[p].data
             /\ \A q \in AllPorts \ {p} : joystick_value'[q] = joystick_value[q]
      ]_vars

(* ---------------------------------------------------------------------- *)
(* Calibrated axes                                                         *)
(* ---------------------------------------------------------------------- *)

\* thresholds a calibration gives the analog axis (range -4 .. 3)
Thresholds == {-3, -1, 0, 2}

\* raw values the backend reports for the axis
AxisRaw == -4 .. 3

\* the pad of the dispatch specification with its one axis calibrated
CalibratedDevices(lo, hi, invert) ==
    [DispatchDevices EXCEPT
        ![1].axes[1].calibration =
            [invert |-> invert, negative |-> lo, positive |-> hi]]

\* joy_axis_event, the raw value kept for the claims
AxisMove(d, k, value, delay) ==
    /\ d \in 1 .. Len(joystick_devices)
    /\ k \in 1 .. Len(joystick_devices[d].axes)
    /\ LET S == joy_axis_event(Cur, d, k, value, delay)
       IN /\ PressBounded(S)
          /\ Install(S)
    /\ last' = [op |-> "joy_axis_event", value |-> value,
                prev |-> joystick_devices[d].axes[k].prev]
    /\ UNCHANGED joymap

InitAxis ==
    /\ InitCommon
    /\ joystick_port_map = [NoPortMap EXCEPT ![0] = JOYDEV_REALJOYSTICK_MIN]
    /\ joystick_init_done = TRUE
    /\ netconn = FALSE
    /\ joystick_delay = 0
    /\ joystick_machine_func = FALSE
    /\ \E lo \in Thresholds, hi \in Thresholds, invert \in BOOLEAN :
          joystick_devices = CalibratedDevices(lo, hi, invert)

NextAxis ==
    \/ \E value \in AxisRaw, delay \in EventDelays : AxisMove(1, 1, value, delay)
    \/ LatchAlarm

SpecAxis == InitAxis /\ [][NextAxis]_vars

\* C12: discretization of an analog axis that is not inverted and whose
\* thresholds are lo < hi: after an event with raw value v the direction of
\* the axis is negative when v <= lo, positive when v >= hi, and neutral
\* when lo < v < hi.
C12_Discretization ==
    \A d \in 1 .. Len(joystick_devices) :
         LET axis == joystick_devices[d].axes[1]
             lo == axis.calibration.negative
             hi == axis.calibration.positive
         IN (/\ last.op = "joy_axis_event"
             /\ ~axis.digital
             /\ ~axis.calibration.invert
             /\ lo < hi)
            => /\ last.value <= lo => axis.prev = "JOY_AXIS_NEGATIVE"
               /\ last.value >= hi => axis.prev = "JOY_AXIS_POSITIVE"
               /\ (lo < last.value /\ last.value < hi) => axis.prev = "JOY_AXIS_MIDDLE"

\* the raw value is the lower threshold itself and the axis went negative
C12_Witness ==
    LET axis == joystick_devices[1].axes[1]
    IN /\ last.op = "joy_axis_event"
       /\ ~axis.digital
       /\ ~axis.calibration.invert
       /\ axis.calibration.negative < axis.calibration.positive
       /\ last.value = axis.calibration.negative
       /\ last.prev = "JOY_AXIS_MIDDLE"
       /\ axis.prev = "JOY_AXIS_NEGATIVE"
       /\ latch_joystick_value.values[0] = JOYPAD_W

\* C23: analog axis, not inverted, thresholds lo < hi: only a raw value
\* strictly beyond a threshold selects a direction; a raw value equal to
\* the negative or to the positive threshold leaves the axis neutral
C23_StrictThresholds ==
    LET axis == joystick_devices[1].axes[1]
        lo == axis.calibration.negative
        hi == axis.calibration.positive
    IN (/\ last.op = "joy_axis_event"
        /\ ~axis.digital
        /\ ~axis.calibration.invert
        /\ lo < hi)
       => /\ last.value < lo => axis.prev = "JOY_AXIS_NEGATIVE"
          /\ last.value > hi => axis.prev = "JOY_AXIS_POSITIVE"
          /\ (lo <= last.value /\ last.value <= hi) => axis.prev = "JOY_AXIS_MIDDLE"

\* the call of joy_perform_event for the mapping of direction dir of an
\* axis, none for the neutral direction
DirectionCall(axis, dir, joyport, value) ==
    IF dir = "JOY_AXIS_POSITIVE"
    THEN <<Call("joy_perform_event", <<axis.positive, joyport, value>>)>>
    ELSE IF dir = "JOY_AXIS_NEGATIVE"
    THEN <<Call("joy_perform_event", <<axis.negative, joyport, value>>)>>
    ELSE <<>>

\* the mapping is a joystick pin one of whose bits has a count on the port
MappingPressed(mapping, joyport) ==
    /\ mapping.action = JOY_ACTION_JOYSTICK
    /\ ValidPort(joyport)
    /\ \E i \in AllPins :
          HasBit(mapping.joy_pin, i) /\ gtkjoy_pins[joyport][i] > 0

\* C19: an axis event that changes the direction releases the mapping of
\* the old direction (value 0) and only then presses the mapping of the new
\* non-neutral direction (value 1), and in no state are the negative and
\* the positive mapping of one axis both pressed
C19_AxisOrdering ==
    /\ [](\A d \in 1 .. Len(joystick_devices) :
            \A k \in 1 .. Len(joystick_devices[d].axes) :
               LET axis == joystick_devices[d].axes[k]
               IN ~(/\ MappingPressed(axis.negative, joystick_devices[d].joyport)
                    /\ MappingPressed(axis.positive, joystick_devices[d].joyport)))
    /\ [][LET axis == joystick_devices'[1].axes[1]
          IN (last'.op = "joy_axis_event" /\ last'.prev # axis.prev)
             => Performs(calls') =
                  DirectionCall(axis, last'.prev, joystick_devices'[1].joyport, 0)
                  \o DirectionCall(axis, axis.prev, joystick_devices'[1].joyport, 1)]_vars

\* the axis went from the negative side straight to the positive one: left
\* was released, then right was pressed
C19_Witness ==
    LET axis == joystick_devices[1].axes[1]
    IN /\ last.op = "joy_axis_event"
       /\ last.prev = "JOY_AXIS_NEGATIVE"
       /\ axis.prev = "JOY_AXIS_POSITIVE"
       /\ Len(Performs(calls)) = 2
       /\ Performs(calls)[1].arg[3] = 0
       /\ Performs(calls)[2].arg[3] = 1
       /\ gtkjoy_pins[0][2] = 0
       /\ gtkjoy_pins[0][3] = 1

(* ---------------------------------------------------------------------- *)
(* Autofire                                                                *)
(* ---------------------------------------------------------------------- *)

\* the port whose autofire resources are changed and whose value is read
AutofirePorts == {0}

\* speeds the settings hold at startup
AutofireSpeeds == {1, 2}

\* values offered to the resource JoyStick<n>AutoFireSpeed
SpeedValues == {0, 1, 2, JOYSTICK_AUTOFIRE_SPEED_MAX + 1}

\* values written to the port
AutofireValues == {JOYPAD_N, JOYPAD_N + JOYPAD_FIRE}

\* the clock is followed for two emulated seconds
MaxSeconds == 2

SetAutofire(port, val) ==
    /\ Install(set_joystick_autofire(Cur, val, port))
    /\ last' = [op |-> "set_joystick_autofire"]
    /\ UNCHANGED joymap

SetAutofireMode(port, val) ==
    /\ Install(set_joystick_autofire_mode(Cur, val, port))
    /\ last' = [op |-> "set_joystick_autofire_mode"]
    /\ UNCHANGED joymap

SetAutofireSpeed(port, val) ==
    LET S == set_joystick_autofire_speed(Cur, val, port)
    IN /\ Install(S)
       /\ last' = [op |-> "set_joystick_autofire_speed", ret |-> S.ret]
       /\ UNCHANGED joymap

\* the main CPU executes one cycle
Cycle ==
    /\ maincpu_clk + 1 < MaxSeconds * CyclesPerSecond
    /\ Install([Cur EXCEPT !.clk = @ + 1])
    /\ last' = [op |-> "cycle"]
    /\ UNCHANGED joymap

\* the emulated port is read
GetValue(port) ==
    /\ Install(Cur)
    /\ last' = [op |-> "get_joystick_value", ret |-> get_joystick_value(Cur, port)]
    /\ UNCHANGED joymap

InitAutofire ==
    /\ joystick_value = ZeroPorts
    /\ latch_joystick_value = InitialValues
    /\ network_joystick_value = InitialValues
    /\ joystick_alarm = 0
    /\ joystick_hooks = [hook |-> ZeroPorts, mask |-> ZeroPorts, state |-> ZeroPorts]
    /\ joystick_opposite_enable = 0
    /\ gtkjoy_pins = [p \in AllPorts |-> [i \in AllPins |-> 0]]
    /\ playback = FALSE
    /\ joymap = <<>>
    /\ snapshot = NoModules
    /\ joystick_autofire_enable = ZeroPorts
    /\ joystick_autofire_mode = [p \in AllPorts |-> "JOYSTICK_AUTOFIRE_MODE_PRESS"]
    /\ \E s \in AutofireSpeeds : joystick_autofire_speed = [p \in AllPorts |-> s]
    /\ maincpu_clk = 0
    /\ joykeys_enable = 1
    /\ joypad_status = [k \in Keysets |-> [column \in KeysetColumns |-> 0]]
    /\ joypad_vmask = [k \in Keysets |-> 0]
    /\ joypad_hmask = [k \in Keysets |-> 0]
    /\ backend_joydev = joystick_device_new
    /\ joystick_axis_value = [port \in 0 .. 1 |-> [pot \in 0 .. 1 |-> 128]]
    /\ joystick_port_map = NoPortMap
    /\ joystick_init_done = TRUE
    /\ calls = <<>>
    /\ last = [op |-> "init"]
    /\ netconn = FALSE
    /\ joystick_delay = 0
    /\ joystick_machine_func = FALSE
    /\ joystick_devices = <<>>

NextAutofire ==
    \/ \E port \in AutofirePorts, val \in {0, 1} : SetAutofire(port, val)
    \/ \E port \in AutofirePorts, val \in {0, 1} : SetAutofireMode(port, val)
    \/ \E port \in AutofirePorts, val \in SpeedValues : SetAutofireSpeed(port, val)
    \/ Cycle
    \/ \E port \in AutofirePorts, value \in AutofireValues :
          Write_absolute(port, value, CyclesPerFrame)
    \/ LatchAlarm
    \/ \E port \in AutofirePorts : GetValue(port)

SpecAutofire == InitAutofire /\ [][NextAutofire]_vars

\* the fire bit get_joystick_value returns for the port at cycle c of a second
FireAt(port, c) == HasBit(get_joystick_value([Cur EXCEPT !.clk = c], port), 4)

SecondCycles == 0 .. (CyclesPerSecond - 1)

\* C13: autofire in mode press.  With autofire enabled in mode press at an
\* accepted speed s, while the current fire bit is set the returned fire bit
\* is pressed on exactly half of the cycle positions of one second, in s
\* pressed phases; while the current fire bit is clear the returned value is
\* the current value.
C13_AutofirePress ==
    \A p \in AutofirePorts :
        (/\ joystick_autofire_enable[p] # 0
         /\ joystick_autofire_mode[p] = "JOYSTICK_AUTOFIRE_MODE_PRESS")
        => IF HasBit(joystick_value[p], 4)
           THEN /\ 2 * Cardinality({c \in SecondCycles : FireAt(p, c)}) = CyclesPerSecond
                /\ Cardinality({c \in SecondCycles :
                                  FireAt(p, c) /\ (c = 0 \/ ~FireAt(p, c - 1))})
                       = joystick_autofire_speed[p]
           ELSE get_joystick_value(Cur, p) = joystick_value[p]

\* the level of the autofire pattern of the port at cycle c of a second
PatternAt(port, c) == get_joystick_autofire([Cur EXCEPT !.clk = c], port) = 1

ProgramState ==
    <<joystick_value, latch_joystick_value, network_joystick_value,
      joystick_alarm, joystick_delay, joystick_machine_func, joystick_hooks,
      joystick_opposite_enable, gtkjoy_pins, joystick_devices, netconn,
      playback, joymap, snapshot, joystick_autofire_enable,
      joystick_autofire_mode, joystick_autofire_speed, maincpu_clk,
      joykeys_enable, joypad_status, joypad_vmask, joypad_hmask,
      joystick_port_map, backend_joydev, joystick_axis_value,
      joystick_init_done>>

\* C14: autofire in mode permanent, and the purity of the read.  With
\* autofire enabled in mode permanent the returned fire bit is pressed at
\* every cycle while the current fire bit is set and is the level of the
\* autofire pattern (which has pressed and released cycles) while it is
\* clear; with autofire disabled the returned value is the current value; in
\* every configuration the bits other than fire are returned as they are,
\* and a read returns that value and changes no state.
C14_AutofirePermanent ==
    /\ [](\A p \in AutofirePorts :
            /\ (/\ joystick_autofire_enable[p] # 0
                /\ joystick_autofire_mode[p] = "JOYSTICK_AUTOFIRE_MODE_PERMANENT")
               => IF HasBit(joystick_value[p], 4)
                  THEN \A c \in SecondCycles : FireAt(p, c)
                  ELSE /\ \A c \in SecondCycles : FireAt(p, c) = PatternAt(p, c)
                       /\ \E c \in SecondCycles : FireAt(p, c)
                       /\ \E c \in SecondCycles : ~FireAt(p, c)
            /\ joystick_autofire_enable[p] = 0
               => \A c \in SecondCycles :
                     get_joystick_value([Cur EXCEPT !.clk = c], p) = joystick_value[p]
            /\ \A c \in SecondCycles :
                  BitAnd(get_joystick_value([Cur EXCEPT !.clk = c], p),
                         UINT16_MAX - JOYPAD_FIRE)
                  = BitAnd(joystick_value[p], UINT16_MAX - JOYPAD_FIRE))
    /\ [][last'.op = "get_joystick_value"
            => /\ ProgramState' = ProgramState
               /\ \E p \in AutofirePorts : last'.ret = get_joystick_value(Cur, p)]_vars

\* the port is read in mode permanent with the fire button held, at a cycle
\* where the autofire pattern is released: fire is returned pressed
C14_Witness ==
    /\ last.op = "get_joystick_value"
    /\ joystick_autofire_enable[0] # 0
    /\ joystick_autofire_mode[0] = "JOYSTICK_AUTOFIRE_MODE_PERMANENT"
    /\ joystick_value[0] = JOYPAD_N + JOYPAD_FIRE
    /\ ~PatternAt(0, maincpu_clk)
    /\ last.ret = JOYPAD_N + JOYPAD_FIRE

(* ---------------------------------------------------------------------- *)
(* Keyset events                                                           *)
(* ---------------------------------------------------------------------- *)

\* host keys the keyboard reports; "x" is in no keyset
HostKeys == {"w", "s", "a", "e", "x"}

\* keyset k drives port k
KeyDown(key, keysetnum) ==
    LET S == joystick_check_set(Cur, key, keysetnum, keysetnum, CyclesPerFrame)
    IN /\ Install(S)
       /\ last' = [op |-> "joystick_check_set", ret |-> S.ret, keysetnum |-> keysetnum,
                   column |-> KeysetColumn(key, keysetnum)]
       /\ UNCHANGED joymap

KeyUp(key, keysetnum) ==
    LET S == joystick_check_clr(Cur, key, keysetnum, keysetnum, CyclesPerFrame)
    IN /\ Install(S)
       /\ last' = [op |-> "joystick_check_clr", ret |-> S.ret, keysetnum |-> keysetnum,
                   column |-> KeysetColumn(key, keysetnum)]
       /\ UNCHANGED joymap

JoypadClear ==
    /\ Install(joystick_joypad_clear(Cur))
    /\ last' = [op |-> "joystick_joypad_clear"]
    /\ UNCHANGED joymap

SetJoykeysEnable(val) ==
    /\ Install(set_joykeys_enable(Cur, val))
    /\ last' = [op |-> "set_joykeys_enable"]
    /\ UNCHANGED joymap

InitKeyset ==
    /\ InitCommon
    /\ joystick_port_map = NoPortMap
    /\ joystick_init_done = TRUE
    /\ netconn = FALSE
    /\ joystick_delay = 0
    /\ joystick_machine_func = FALSE
    /\ joystick_devices = <<>>

NextKeyset ==
    \/ \E key \in HostKeys, keysetnum \in Keysets : KeyDown(key, keysetnum)
    \/ \E key \in HostKeys, keysetnum \in Keysets : KeyUp(key, keysetnum)
    \/ JoypadClear
    \/ \E val \in {0, 1} : SetJoykeysEnable(val)

SpecKeyset == InitKeyset /\ [][NextKeyset]_vars

\* columns of the direction keys
DirectionColumns ==
    {JOYSTICK_KEYSET_SW, JOYSTICK_KEYSET_S, JOYSTICK_KEYSET_SE, JOYSTICK_KEYSET_W,
     JOYSTICK_KEYSET_E, JOYSTICK_KEYSET_NW, JOYSTICK_KEYSET_N, JOYSTICK_KEYSET_NE}

Contains(value, bits) == BitAnd(value, bits) = bits

\* C15: keyset with opposite directions disallowed.  The value a tracked
\* key-down or key-up writes to the port holds neither up and down nor left
\* and right, and the value a key-down of a direction key writes holds the
\* direction(s) of that key.
C15_KeysetOpposite ==
    (last.op \in {"joystick_check_set", "joystick_check_clr"} /\ last.ret = 1)
    => LET written == calls[1].arg[2]
       IN /\ calls[1].fn = "joystick_set_value_absolute"
          /\ calls[1].arg[1] = last.keysetnum
          /\ latch_joystick_value.values[last.keysetnum] = written
          /\ ~Contains(written, JOYPAD_N + JOYPAD_S)
          /\ ~Contains(written, JOYPAD_W + JOYPAD_E)
          /\ (last.op = "joystick_check_set" /\ last.column \in DirectionColumns)
             => Contains(written, joypad_bits[last.column + 1])

\* left is pressed while up-right and down are held: the value written is
\* down and left, the last vertical and the last horizontal key pressed
C15_Witness ==
    /\ last.op = "joystick_check_set"
    /\ last.ret = 1
    /\ last.column = JOYSTICK_KEYSET_W
    /\ joypad_status[0][JOYSTICK_KEYSET_NE] = 1
    /\ joypad_status[0][JOYSTICK_KEYSET_S] = 1
    /\ calls[1].arg[2] = JOYPAD_S + JOYPAD_W
    /\ latch_joystick_value.values[0] = JOYPAD_S + JOYPAD_W


(* ---------------------------------------------------------------------- *)
(* Press counters under events, mapping files and port assignment         *)
(* ---------------------------------------------------------------------- *)

\* the joymap file joystick_init loads: the first button is fire, the second
\* one presses fire and up at once (pin value 0x11), the axis steers left
\* and right, the hat pushes up
PressJoymap ==
    File(<<ClearLine,
           Line(<<0, 0, 0, 1, JOYSTICK_DIRECTION_RIGHT>>, ""),
           Line(<<0, 0, 1, 1, JOYSTICK_DIRECTION_LEFT>>, ""),
           Line(<<0, 1, 0, 1, JOYPORT_FIRE>>, ""),
           Line(<<0, 1, 1, 1, JOYPORT_FIRE + JOYSTICK_DIRECTION_UP>>, ""),
           Line(<<0, 2, 0, 1, JOYSTICK_DIRECTION_UP>>, "")>>)

\* a pad with one analog axis, two buttons and a hat on port 0
PressDevices ==
    joy_arch_mapping_load(
        joystick_init_assign(
            RegisterSorted([devs |-> <<>>, ret |-> TRUE, calls |-> <<>>],
                           HostDevice(0, <<1, 2, 1>>, FALSE, FALSE)).devs,
            0, 1),
        PressJoymap).devs

\* raw values the backend passes: buttons are up (0) or down (1)
PressAxisValues == {-3, 0, 3}

PressButtonValues == {0, 1}

PressHatValues == {0, JOYSTICK_DIRECTION_UP}

\* the files a user loads while the pad is in use
PressFiles == {File(<<ClearLine>>), PressJoymap}

\* value of the resources JoyDevice<n> the user picks: the pad
PressDeviceIds == {JOYDEV_REALJOYSTICK_MIN}

\* the pins of the used ports that have counted a press
CountedPins ==
    {<<p, i>> \in UsedPorts \X AllPins : gtkjoy_pins[p][i] > 0}

PressAxis(d, k, value, delay) ==
    /\ LET S == joy_axis_event(Cur, d, k, value, delay)
       IN /\ PressBounded(S)
          /\ Install(S)
    /\ last' = [op |-> "joy_axis_event", value |-> value]
    /\ UNCHANGED joymap

PressButton(d, k, value, delay) ==
    /\ LET S == joy_button_event(Cur, d, k, value, delay)
       IN /\ PressBounded(S)
          /\ Install(S)
    /\ last' = [op |-> "joy_button_event", value |-> value]
    /\ UNCHANGED joymap

PressHat(d, k, value, delay) ==
    /\ LET S == joy_hat_event(Cur, d, k, value, delay)
       IN /\ PressBounded(S)
          /\ Install(S)
    /\ last' = [op |-> "joy_hat_event", value |-> value]
    /\ UNCHANGED joymap

PressLoad(file) ==
    /\ Install([Cur EXCEPT !.devs = joy_arch_mapping_load(joystick_devices, file).devs])
    /\ last' = [op |-> "joy_arch_mapping_load", value |-> 0]
    /\ UNCHANGED joymap

SetJoystickDevice(val, port_idx) ==
    /\ Install(set_joystick_device(Cur, val, port_idx))
    /\ last' = [op |-> "set_joystick_device", value |-> val]
    /\ UNCHANGED joymap

InitPress ==
    /\ InitCommon
    /\ joystick_port_map = [NoPortMap EXCEPT ![0] = JOYDEV_REALJOYSTICK_MIN]
    /\ joystick_init_done = TRUE
    /\ netconn = FALSE
    /\ joystick_delay = 0
    /\ joystick_machine_func = FALSE
    /\ joystick_devices = PressDevices

PressEvent ==
    \/ \E value \in PressAxisValues : PressAxis(1, 1, value, CyclesPerFrame)
    \/ \E k \in 1 .. 2, value \in PressButtonValues :
          PressButton(1, k, value, CyclesPerFrame)
    \/ \E value \in PressHatValues : PressHat(1, 1, value, CyclesPerFrame)

\* the pad in use: the mapping and the port assignment stay as joystick_init
\* left them
NextRelease ==
    \/ PressEvent
    \/ LatchAlarm

SpecRelease == InitPress /\ [][NextRelease]_vars

\* the pad in use while the user loads mapping files and assigns the pad to
\* a port; at most one pin has counted presses at a time
NextPress ==
    \/ PressEvent /\ Cardinality(CountedPins') <= 1
    \/ \E file \in PressFiles : PressLoad(file)
    \/ \E val \in PressDeviceIds, port_idx \in UsedPorts :
          SetJoystickDevice(val, port_idx)

SpecPress == InitPress /\ [][NextPress]_vars

\* C17: when a button mapped to a joystick pin is released, a bit leaves the
\* latched value of a port only if the press counter of that very bit is
\* zero afterwards; the bits of the pin value whose counter is still
\* positive stay set
C17_ReleaseKeepsCountedBits ==
    [][(last'.op = "joy_button_event" /\ last'.value = 0) =>
         \A p \in UsedPorts, i \in AllPins :
            (/\ HasBit(latch_joystick_value.values[p], i)
             /\ ~HasBit(latch_joystick_value'.values[p], i))
               => gtkjoy_pins'[p][i] = 0]_vars

\* the controls of the devices on port p that are pressed and mapped to a
\* joystick pin that holds bit i
PressedOn(p, i) ==
    {s \in PortSlots(p) :
        /\ s.pressed
        /\ s.mapping.action = JOY_ACTION_JOYSTICK
        /\ HasBit(s.mapping.joy_pin, i)}

\* C18: for every port and pin bit the press counter is the number of
\* pressed controls mapped to a joystick pin with that bit on a device of
\* that port (so it is 0 when every control is released)
C18_PressCounterMeaning ==
    \A p \in UsedPorts, i \in AllPins :
        gtkjoy_pins[p][i] = Cardinality(PressedOn(p, i))


(* ---------------------------------------------------------------------- *)
(* The latch alarm on the clock of the main CPU                            *)
(* ---------------------------------------------------------------------- *)

\* values written to a port
TimedValues == {0, JOYPAD_FIRE}

\* an age in cycles, kept up to one cycle over a frame
Age(n) == IF n > CyclesPerFrame THEN CyclesPerFrame + 1 ELSE n

\* a write that changes the latched value of the port; joystick_alarm holds
\* the cycles left until the alarm set for maincpu_clk + delay; oldest and
\* newest are the cycles since the first and the last write not yet applied
TimedWrite(port, value, delay) ==
    /\ latch_joystick_value.values[port] # value
    /\ Install(joystick_set_value_absolute(Cur, port, value, delay))
    /\ last' = [op |-> "joystick_set_value_absolute",
                oldest |-> IF joystick_alarm > 0 THEN last.oldest ELSE 0,
                newest |-> 0]
    /\ UNCHANGED joymap

\* the clock of the main CPU, followed modulo MaxSeconds seconds (the alarm
\* is kept as the cycles left, so nothing here reads the clock)
NextClock(clk) == (clk + 1) % (MaxSeconds * CyclesPerSecond)

\* one cycle of the main CPU on which the alarm is not due
TimedCycle ==
    /\ joystick_alarm # 1
    /\ Install([Cur EXCEPT !.clk = NextClock(@),
                           !.alarm = IF @ > 0 THEN @ - 1 ELSE 0])
    /\ last' = [op |-> "cycle",
                oldest |-> IF joystick_alarm > 0 THEN Age(last.oldest + 1) ELSE 0,
                newest |-> IF joystick_alarm > 0 THEN Age(last.newest + 1) ELSE 0]
    /\ UNCHANGED joymap

\* the cycle on which the alarm is due: the alarm handler runs
TimedLatch ==
    /\ joystick_alarm = 1
    /\ Install(joystick_latch_handler([Cur EXCEPT !.clk = NextClock(@)]))
    /\ last' = [op |-> "joystick_latch_handler",
                oldest |-> Age(last.oldest + 1),
                newest |-> Age(last.newest + 1)]
    /\ UNCHANGED joymap

InitTimed ==
    /\ InitCommon
    /\ joystick_port_map = NoPortMap
    /\ joystick_init_done = TRUE
    /\ netconn = FALSE
    /\ joystick_delay = 0
    /\ joystick_machine_func = FALSE
    /\ joystick_devices = <<>>

NextTimed ==
    \/ \E port \in UsedPorts, value \in TimedValues, delay \in 1 .. CyclesPerFrame :
          TimedWrite(port, value, delay)
    \/ TimedCycle
    \/ TimedLatch

SpecTimed == InitTimed /\ [][NextTimed]_vars

\* the emulated clock keeps advancing: a cycle that can be taken is taken
SpecTimedLive == SpecTimed /\ WF_vars(TimedCycle \/ TimedLatch)

\* C21: not networked, no playback: when the writes stop and the clock keeps
\* advancing, the latch runs, and from then on the current value of every
\* port is its latched value and no latch is pending
C21_LatchLiveness ==
    <>[][last'.op # "joystick_set_value_absolute"]_vars
       => <>[](/\ joystick_alarm = 0
               /\ joystick_value = latch_joystick_value.values)

\* the latch ran after a write of the fire button to port 0
C21_Witness ==
    /\ last.op = "joystick_latch_handler"
    /\ joystick_alarm = 0
    /\ latch_joystick_value.values[0] = JOYPAD_FIRE
    /\ joystick_value = latch_joystick_value.values

\* C20: not networked, no playback: when the latch is applied, every write
\* it applies was made at least 1 and at most cycles_per_frame cycles
\* before, also when writes arrived while the latch was pending; one alarm
\* at most is pending
C20_LatchDelayBound ==
    /\ joystick_alarm \in 0 .. CyclesPerFrame
    /\ last.op = "joystick_latch_handler"
          => /\ last.newest >= 1
             /\ last.oldest <= CyclesPerFrame


(* ---------------------------------------------------------------------- *)
(* Recording a session and playing it back                                 *)
(* ---------------------------------------------------------------------- *)

\* most events a recorded session holds
MaxEvents == 2

\* values written to a port in a recorded session
RecordValues == {0, JOYPAD_FIRE}

\* the data of the EVENT_JOYSTICK_VALUE events among the calls of an
\* operation
RecordedEvents(cs) ==
    LET evs == SelectSeq(cs, LAMBDA c : c.fn = "event_record")
    IN [i \in 1 .. Len(evs) |-> evs[i].arg]

\* the event log of the session and the values the current array took, both
\* empty when the session starts
RecordedSoFar == IF last.op = "init" THEN <<>> ELSE last.recorded

ValuesSoFar == IF last.op = "init" THEN <<>> ELSE last.values

\* an operation of the recorded session: the event log grows by the events
\* the operation recorded, and the values the current array took by its
\* new value when the operation changed it
Recorded(S, op) ==
    /\ Len(RecordedSoFar) + Len(RecordedEvents(S.calls)) <= MaxEvents
    /\ S.value # joystick_value => Len(ValuesSoFar) <= MaxEvents
    /\ Install(S)
    /\ last' = [op |-> op,
                recorded |-> RecordedSoFar \o RecordedEvents(S.calls),
                values |-> IF S.value # joystick_value
                           THEN Append(ValuesSoFar, S.value)
                           ELSE ValuesSoFar]
    /\ UNCHANGED joymap

RecordWrite_absolute(port, value, delay) ==
    Recorded(joystick_set_value_absolute(Cur, port, value, delay),
             "joystick_set_value_absolute")

RecordWrite_or(port, value, delay) ==
    Recorded(joystick_set_value_or(Cur, port, value, delay),
             "joystick_set_value_or")

RecordWrite_and(port, value, delay) ==
    Recorded(joystick_set_value_and(Cur, port, value, delay),
             "joystick_set_value_and")

RecordLatch ==
    /\ joystick_alarm > 0
    /\ Recorded(joystick_latch_handler(Cur), "joystick_latch_handler")

RecordClear(port) ==
    Recorded(joystick_clear(Cur, port), "joystick_clear")

RecordClearAll ==
    Recorded(joystick_clear_all(Cur), "joystick_clear_all")

InitRecord ==
    /\ InitCommon
    /\ joystick_port_map = NoPortMap
    /\ joystick_init_done = TRUE
    /\ netconn = FALSE
    /\ joystick_delay = 0
    /\ joystick_machine_func = FALSE
    /\ joystick_devices = <<>>

NextRecord ==
    \/ \E port \in UsedPorts, value \in RecordValues, delay \in {CyclesPerFrame} :
          \/ RecordWrite_absolute(port, value, delay)
          \/ RecordWrite_or(port, value, delay)
          \/ RecordWrite_and(port, value, delay)
    \/ RecordLatch
    \/ \E port \in UsedPorts : RecordClear(port)
    \/ RecordClearAll

SpecRecord == InitRecord /\ [][NextRecord]_vars

\* the values the current array takes when the events of log are fed, in
\* order, to joystick_event_playback
RECURSIVE ReplayFrom(_, _)
ReplayFrom(S, log) ==
    IF log = <<>> THEN <<>>
    ELSE LET S1 == joystick_event_playback(S, Head(log))
         IN <<S1.value>> \o ReplayFrom(S1, Tail(log))

\* the program when the playback starts: as constructed, playback active
PlaybackStart ==
    [Cur EXCEPT !.value = ZeroPorts, !.latch = InitialValues, !.alarm = 0,
                !.playback = TRUE, !.calls = <<>>]

\* the changes of a sequence of values that starts from value before
RECURSIVE Changes(_, _)
Changes(before, seq) ==
    IF seq = <<>> THEN <<>>
    ELSE IF Head(seq) = before THEN Changes(before, Tail(seq))
    ELSE <<Head(seq)>> \o Changes(Head(seq), Tail(seq))

\* C22: not networked: the recorded EVENT_JOYSTICK_VALUE events, fed in
\* order to joystick_event_playback, take the current array through the
\* values it took in the recorded session
C22_RecordReplay ==
    Changes(ZeroPorts, ReplayFrom(PlaybackStart, RecordedSoFar))
        = Changes(ZeroPorts, ValuesSoFar)


(* ---------------------------------------------------------------------- *)
(* Inverted analog axes                                                    *)
(* ---------------------------------------------------------------------- *)

\* ranges [minimum, maximum] a backend reports: an even and two odd numbers
\* of values
InvertRanges == {<<-4, 3>>, <<0, 4>>, <<0, 254>>}

\* thresholds of the inverted axis, relative to the centre
InvertThresholds == {<<-2, 2>>, <<-1, 1>>}

\* raw values of a range: its ends and the values around its middle
InvertRaw(minimum, maximum) ==
    {v \in minimum .. maximum :
        \/ v - minimum < 2
        \/ maximum - v < 2
        \/ (2 * v - (minimum + maximum) \in -4 .. 4)}

\* the pad of the dispatch specification with its one axis inverted
InvertedDevices(range, thresholds) ==
    [DispatchDevices EXCEPT
        ![1].axes[1].minimum = range[1],
        ![1].axes[1].maximum = range[2],
        ![1].axes[1].calibration =
            [invert |-> TRUE, negative |-> thresholds[1], positive |-> thresholds[2]]]

InitInvert ==
    /\ InitCommon
    /\ joystick_port_map = [NoPortMap EXCEPT ![0] = JOYDEV_REALJOYSTICK_MIN]
    /\ joystick_init_done = TRUE
    /\ netconn = FALSE
    /\ joystick_delay = 0
    /\ joystick_machine_func = FALSE
    /\ \E range \in InvertRanges, thresholds \in InvertThresholds :
          joystick_devices = InvertedDevices(range, thresholds)

NextInvert ==
    \/ \E value \in InvertRaw(joystick_devices[1].axes[1].minimum,
                              joystick_devices[1].axes[1].maximum),
          delay \in EventDelays : AxisMove(1, 1, value, delay)
    \/ LatchAlarm

SpecInvert == InitInvert /\ [][NextInvert]_vars

\* n / 2 rounded up, for n >= 0
CeilHalf(n) == (n + 1) \div 2

\* C24: inverted analog axis with minimum < maximum: the value compared with
\* the thresholds is the raw value reflected around the centre
\* maximum - ceil((maximum - minimum + 1) / 2), also for ranges with an odd
\* number of values, and the direction of the axis is that of the reflected
\* value
C24_InversionCentre ==
    LET axis == joystick_devices[1].axes[1]
        center == axis.maximum - CeilHalf(axis.maximum - axis.minimum + 1)
        v == center - last.value
    IN (/\ last.op = "joy_axis_event"
        /\ ~axis.digital
        /\ axis.calibration.invert
        /\ axis.minimum < axis.maximum)
       => /\ AxisCalibrated(axis, last.value) = v
          /\ axis.prev = (IF v <= axis.calibration.negative THEN "JOY_AXIS_NEGATIVE"
                          ELSE IF v >= axis.calibration.positive THEN "JOY_AXIS_POSITIVE"
                          ELSE "JOY_AXIS_MIDDLE")


(* ---------------------------------------------------------------------- *)
(* Registration of devices whose inputs share event codes                  *)
(* ---------------------------------------------------------------------- *)

\* event codes of the inputs of one kind, in the order of the enumeration
AxisCodes == {<<1, 2>>, <<2, 1>>, <<1, 1>>}

ButtonCodes == {<<1>>, <<2, 1, 2>>, <<1, 1>>}

HatCodes == {<<>>, <<2, 1>>, <<1, 1>>}

\* the inputs i .. Len(codes) of one kind are added; name is the position in
\* the enumeration
RECURSIVE AddCoded(_, _, _, _)
AddCoded(joydev, kind, codes, i) ==
    IF i > Len(codes) THEN joydev
    ELSE AddCoded(
            CASE kind = "axis" ->
                   joystick_device_add_axis(joydev, NewAxis(codes[i], i, FALSE))
              [] kind = "button" ->
                   joystick_device_add_button(joydev, NewButton(codes[i], i))
              [] OTHER ->
                   joystick_device_add_hat(joydev, NewHat(codes[i], i)),
            kind, codes, i + 1)

CodedDevice(name, axes, buttons, hats, nosort) ==
    AddCoded(AddCoded(AddCoded([joystick_device_new EXCEPT !.name = name,
                                                           !.disable_sort = nosort],
                               "axis", axes, 1),
                      "button", buttons, 1),
             "hat", hats, 1)

\* joystick_device_register; the device as the backend handed it over is
\* kept for the claims
RegisterCoded(axisCodes, buttonCodes, hatCodes, nosort) ==
    /\ Len(joystick_devices) < MaxDevices
    /\ LET joydev == CodedDevice(Len(joystick_devices), axisCodes, buttonCodes,
                                 hatCodes, nosort)
       IN \E axes \in QsortResults(joydev.axes),
             buttons \in QsortResults(joydev.buttons),
             hats \in QsortResults(joydev.hats) :
            LET S == joystick_device_register(Cur, joydev, axes, buttons, hats)
            IN /\ Install(S)
               /\ last' = [op |-> "joystick_device_register", ret |-> S.ret,
                           joydev |-> joydev]
    /\ UNCHANGED joymap

NextSort ==
    \E axisCodes \in AxisCodes, buttonCodes \in ButtonCodes, hatCodes \in HatCodes,
       nosort \in BOOLEAN :
          RegisterCoded(axisCodes, buttonCodes, hatCodes, nosort)

SpecSort == InitRegistry /\ [][NextSort]_vars

\* the names of a collection, in its order
Names(coll) == [i \in 1 .. Len(coll) |-> coll[i].name]

\* coll is the enumeration enum in ascending order of the code, inputs with
\* equal codes in the order of the enumeration, indexes 0 .. n - 1
StablySorted(coll, enum) ==
    /\ Len(coll) = Len(enum)
    /\ {<<coll[i].name, coll[i].code>> : i \in 1 .. Len(coll)}
          = {<<enum[i].name, enum[i].code>> : i \in 1 .. Len(enum)}
    /\ \A i \in 1 .. Len(coll) : coll[i].index = i - 1
    /\ \A i, j \in 1 .. Len(coll) :
          i < j => \/ coll[i].code < coll[j].code
                   \/ (coll[i].code = coll[j].code /\ coll[i].name < coll[j].name)

\* C25: after joystick_device_register without disable_sort the axes, the
\* buttons and the hats are each in ascending order of the code, inputs
\* with equal codes in the order of the enumeration, the same inputs as
\* before, each index its position; with disable_sort the order of the
\* enumeration is kept
C25_RegistrationSorting ==
    (last.op = "joystick_device_register" /\ last.ret)
       => LET d == joystick_devices[Len(joystick_devices)]
              e == last.joydev
          IN IF e.disable_sort
             THEN /\ Names(d.axes) = Names(e.axes)
                  /\ Names(d.buttons) = Names(e.buttons)
                  /\ Names(d.hats) = Names(e.hats)
             ELSE /\ StablySorted(d.axes, e.axes)
                  /\ StablySorted(d.buttons, e.buttons)
                  /\ StablySorted(d.hats, e.hats)


(* ---------------------------------------------------------------------- *)
(* A backend fills a device with inputs                                    *)
(* ---------------------------------------------------------------------- *)

\* most hats a backend adds to a device
MaxHats == 6

\* the calls of joystick_device_add_axis, _add_button and _add_hat made on
\* the device so far
Added ==
    IF last.op = "init" THEN [axes |-> 0, buttons |-> 0, hats |-> 0]
    ELSE last.added

\* the inputs are named by the call that added them; the backend adds many
\* inputs of one kind to a device that holds at most one of each other
\* kind, and adds axes and buttons until one is ignored
AddAxis ==
    /\ Added.axes = Len(backend_joydev.axes)
    /\ Len(backend_joydev.buttons) <= 1
    /\ Len(backend_joydev.hats) <= 1
    /\ Install([Cur EXCEPT !.backend =
          joystick_device_add_axis(@, NewAxis(1, Added.axes + 1, FALSE))])
    /\ last' = [op |-> "joystick_device_add_axis",
                added |-> [Added EXCEPT !.axes = @ + 1]]
    /\ UNCHANGED joymap

AddButton ==
    /\ Added.buttons = Len(backend_joydev.buttons)
    /\ Len(backend_joydev.axes) <= 1
    /\ Len(backend_joydev.hats) <= 1
    /\ Install([Cur EXCEPT !.backend =
          joystick_device_add_button(@, NewButton(1, Added.buttons + 1))])
    /\ last' = [op |-> "joystick_device_add_button",
                added |-> [Added EXCEPT !.buttons = @ + 1]]
    /\ UNCHANGED joymap

AddHat ==
    /\ Added.hats < MaxHats
    /\ Len(backend_joydev.axes) <= 1
    /\ Len(backend_joydev.buttons) <= 1
    /\ Install([Cur EXCEPT !.backend =
          joystick_device_add_hat(@, NewHat(1, Added.hats + 1))])
    /\ last' = [op |-> "joystick_device_add_hat",
                added |-> [Added EXCEPT !.hats = @ + 1]]
    /\ UNCHANGED joymap

NextBuild ==
    \/ AddAxis
    \/ AddButton
    \/ AddHat

SpecBuild == InitRegistry /\ [][NextBuild]_vars

\* C26: after any sequence of joystick_device_add_hat calls, a 5th one
\* included, num_hats is the number of hats accepted, the positions below
\* num_hats hold the added hats in the order they were added, and num_hats
\* is at most max_hats
C26_HatBookkeeping ==
    LET hats == backend_joydev.hats
    IN /\ Len(hats) = Added.hats
       /\ \A i \in 1 .. Len(hats) : hats[i].name = i
       /\ Len(hats) <= backend_joydev.max_hats

\* C27: an axis added to a device that holds fewer than NUM_AXES_MAX axes
\* is accepted, and so is a button added to a device that holds fewer than
\* NUM_BUTTONS_MAX buttons
C27_InputCountLimit ==
    [][/\ (last'.op = "joystick_device_add_axis"
           /\ Len(backend_joydev.axes) < NUM_AXES_MAX)
          => /\ Len(backend_joydev'.axes) = Len(backend_joydev.axes) + 1
             /\ backend_joydev'.axes[Len(backend_joydev'.axes)].name = Added'.axes
       /\ (last'.op = "joystick_device_add_button"
           /\ Len(backend_joydev.buttons) < NUM_BUTTONS_MAX)
          => /\ Len(backend_joydev'.buttons) = Len(backend_joydev.buttons) + 1
             /\ backend_joydev'.buttons[Len(backend_joydev'.buttons)].name
                   = Added'.buttons]_vars


(* ---------------------------------------------------------------------- *)
(* Axes mapped to a potentiometer                                          *)
(* ---------------------------------------------------------------------- *)

\* potentiometer arguments of the pot-axis lines a user writes
PotArguments == {0, 1, 2, 3}

\* a mapping file with one pot-axis line for axis 0 of device 0
PotFile(pot) == File(<<Line(<<0, 0, 0, JOY_ACTION_POT_AXIS, pot>>, "")>>)

\* values a backend reports for an axis mapped to a pot
PotValues == {0, 255}

PotLoad(pot) ==
    /\ Install([Cur EXCEPT !.devs = joy_arch_mapping_load(joystick_devices,
                                                          PotFile(pot)).devs])
    /\ last' = [op |-> "joy_arch_mapping_load", pot |-> pot]
    /\ UNCHANGED joymap

SetAxisValue(joynum, axis_idx, value) ==
    /\ joynum < Len(joystick_devices)
    /\ axis_idx < Len(joystick_devices[joynum + 1].axes)
    /\ Install(joystick_set_axis_value(Cur, joynum, axis_idx, value))
    /\ last' = [op |-> "joystick_set_axis_value", pot |-> 0]
    /\ UNCHANGED joymap

NextPot ==
    \/ \E pot \in PotArguments : PotLoad(pot)
    \/ \E value \in PotValues : SetAxisValue(0, 0, value)
    \/ \E port_idx \in 0 .. 2 : SetJoystickDevice(JOYDEV_REALJOYSTICK_MIN, port_idx)

SpecPot == InitDispatch /\ [][NextPot]_vars

\* C28: the pot target of every axis is 0 (none), 1 or 2, and
\* joystick_set_axis_value writes joystick_axis_value[port][pot] with port
\* and pot in {0, 1} only
C28_PotArgument ==
    /\ \A d \in 1 .. Len(joystick_devices) :
          \A k \in 1 .. Len(joystick_devices[d].axes) :
             joystick_devices[d].axes[k].pot \in {0, 1, 2}
    /\ \A i \in 1 .. Len(calls) :
          calls[i].fn = "joystick_axis_value"
             => calls[i].arg[1] \in {0, 1} /\ calls[i].arg[2] \in {0, 1}

(* ---------------------------------------------------------------------- *)
(* A mapping file as a patch (joystick.c 1303-1317, 1599-1749)             *)
(* ---------------------------------------------------------------------- *)

\* the mapping a slot holds (a pot slot: the pot number)
SlotMapping(devs, s) ==
    CASE s.kind = "pot" -> devs[s.d + 1].axes[s.k + 1].pot
      [] s.kind = "button" -> devs[s.d + 1].buttons[s.k + 1].mapping
      [] s.kind = "axis" /\ s.dir = "positive" -> devs[s.d + 1].axes[s.k + 1].positive
      [] s.kind = "axis" /\ s.dir = "negative" -> devs[s.d + 1].axes[s.k + 1].negative
      [] s.kind = "hat" /\ s.dir = "up" -> devs[s.d + 1].hats[s.k + 1].up
      [] s.kind = "hat" /\ s.dir = "down" -> devs[s.d + 1].hats[s.k + 1].down
      [] s.kind = "hat" /\ s.dir = "left" -> devs[s.d + 1].hats[s.k + 1].left
      [] OTHER -> devs[s.d + 1].hats[s.k + 1].right

\* the action-specific columns of the lines of a patch, one per action
PatchArguments ==
    {Line(<<JOY_ACTION_NONE>>, ""),
     Line(<<JOY_ACTION_JOYSTICK, 4>>, ""),
     Line(<<JOY_ACTION_KEYBOARD, 3, 4, 8>>, ""),
     Line(<<JOY_ACTION_MAP>>, ""),
     Line(<<JOY_ACTION_UI_ACTIVATE>>, ""),
     Line(<<JOY_ACTION_UI_FUNCTION>>, "reset-soft"),
     Line(<<JOY_ACTION_POT_AXIS, 2>>, "")}

\* the lines of a patch for the devices
PatchLines(devs) ==
    {Line(<<d, type, i>> \o a.ints, a.word) :
        d \in 0 .. Len(devs) - 1,
        type \in {JOY_INPUT_AXIS, JOY_INPUT_BUTTON, JOY_INPUT_HAT},
        i \in InputIndexes, a \in PatchArguments}

\* C29: patch semantics.  A file of one valid mapping line changes the
\* mapping of the one slot the line addresses (a direction of an axis, the
\* pot target of an axis, a button, a direction of a hat) on the device it
\* names; every other slot of that device and every slot of every other
\* device keeps its mapping, and the devices keep their inputs.
C29_PatchSemantics ==
    \A line \in PatchLines(joystick_devices) :
        LET r == joy_arch_mapping_load(joystick_devices, File(<<line>>))
            s == Resolved(line.ints[1], line.ints[2], line.ints[3], line.ints[4])
        IN (r.ret = 0 /\ r.failed = 0)
           => /\ s \in Slots(joystick_devices)
              /\ Slots(r.devs) = Slots(joystick_devices)
              /\ \A t \in Slots(joystick_devices) \ {s} :
                    SlotMapping(r.devs, t) = SlotMapping(joystick_devices, t)

\* a file of one line mapped the button of the stick to a key; the axes of
\* the stick and the inputs of the pad hold the mappings they had
C29_Witness ==
    /\ last.op = "joy_arch_mapping_load"
    /\ last.applied /\ ~last.failed
    /\ joystick_devices[1].buttons[1].mapping.action = JOY_ACTION_KEYBOARD
    /\ joystick_devices[1].buttons[1].mapping.key = <<3, 4, 8>>
    /\ MapFileDevices[1].buttons[1].mapping.action = JOY_ACTION_JOYSTICK
    /\ joystick_devices[1].axes = MapFileDevices[1].axes
    /\ joystick_devices[1].axes[1].positive.action = JOY_ACTION_JOYSTICK
    /\ joystick_devices[2] = MapFileDevices[2]
    /\ joystick_devices[2].hats[1].up.action = JOY_ACTION_JOYSTICK

(* ---------------------------------------------------------------------- *)
(* The hat indexes of the file header (joystick.c 1319-1338)               *)
(* ---------------------------------------------------------------------- *)

\* "hat 0 has inputindex 0,1,2,3 respectively for up, down, left and right.
\* Hat 1 has 5,6,7,8 etc." (the header mapping_dump_header writes)
HeaderHatIndexes == <<<<0, 1, 2, 3>>, <<5, 6, 7, 8>>>>

HatDirections == <<"up", "down", "left", "right">>

\* the registry after a backend registered a pad with two hats
HatDevices ==
    RegisterSorted([devs |-> <<>>, ret |-> TRUE, calls |-> <<>>],
                   HostDevice(0, <<1, 2, 2>>, FALSE, FALSE)).devs

\* the lines a user writes for the hats: the fire button on an input index
HatLines == {Line(<<0, JOY_INPUT_HAT, i, JOY_ACTION_JOYSTICK, 16>>, "") : i \in 0 .. 8}

HatLoad == \E line \in HatLines : MappingLoad(File(<<line>>))

InitHats ==
    /\ InitCommon
    /\ joystick_port_map = NoPortMap
    /\ joystick_init_done = TRUE
    /\ netconn = FALSE
    /\ joystick_delay = 0
    /\ joystick_machine_func = FALSE
    /\ joystick_devices = HatDevices

NextHats ==
    \/ HatLoad
    \/ MappingDump
    \/ LoadDumped

SpecHats == InitHats /\ [][NextHats]_vars

\* C30: hat index documentation.  For hat 0 and hat 1 of a device and each
\* of up, down, left, right, the input index the file header documents
\* (0,1,2,3 and 5,6,7,8) is the one the parser accepts for that slot, and
\* the one the dump writes for that slot.
C30_HatIndexDocumentation ==
    \A d \in 0 .. Len(joystick_devices) - 1, hat \in 0 .. 1, n \in 1 .. 4 :
        LET s == [d |-> d, kind |-> "hat", k |-> hat, dir |-> HatDirections[n]]
            i == HeaderHatIndexes[hat + 1][n]
            r == joy_arch_parse_entry(joystick_devices,
                     Line(<<d, JOY_INPUT_HAT, i, JOY_ACTION_JOYSTICK, 16>>, ""))
            marked == Put(Blank(joystick_devices), s, 16)
            lines == joy_arch_mapping_dump(marked)
        IN s \in Slots(joystick_devices)
           => /\ r.result
              /\ r.devs = Put(joystick_devices, s, 16)
              /\ \A m \in MappedEntries(lines) : lines[m].ints[3] = i

\* the part of the claim on hat 0: it holds
C30_Hat0Documentation ==
    \A d \in 0 .. Len(joystick_devices) - 1, n \in 1 .. 4 :
        LET s == [d |-> d, kind |-> "hat", k |-> 0, dir |-> HatDirections[n]]
            i == HeaderHatIndexes[1][n]
            r == joy_arch_parse_entry(joystick_devices,
                     Line(<<d, JOY_INPUT_HAT, i, JOY_ACTION_JOYSTICK, 16>>, ""))
            marked == Put(Blank(joystick_devices), s, 16)
            lines == joy_arch_mapping_dump(marked)
        IN s \in Slots(joystick_devices)
           => /\ r.result
              /\ r.devs = Put(joystick_devices, s, 16)
              /\ \A m \in MappedEntries(lines) : lines[m].ints[3] = i

(* ---------------------------------------------------------------------- *)
(* The default mapping on any device (joystick.c 3495-3565)                *)
(* ---------------------------------------------------------------------- *)

\* numbers of axes, buttons and hats of the devices the heuristic is run on
HeuristicShapes ==
    {<<a, b, h>> : a \in 0 .. 2, b \in 0 .. 4, h \in 0 .. 1}

\* a backend enumerates the inputs of a device
Enumerate(shape, rev, nosort) ==
    /\ Install([Cur EXCEPT !.backend = HostDevice(0, shape, rev, nosort)])
    /\ last' = [op |-> "joystick_device_new"]
    /\ UNCHANGED joymap

\* the heuristic runs on the device as enumerated
ApplyDefaultMapping ==
    /\ last.op = "joystick_device_new"
    /\ Install([Cur EXCEPT !.backend = joystick_device_apply_default_mapping(@)])
    /\ last' = [op |-> "joystick_device_apply_default_mapping"]
    /\ UNCHANGED joymap

NextHeuristic ==
    \/ \E shape \in HeuristicShapes, rev \in BOOLEAN, nosort \in BOOLEAN :
          Enumerate(shape, rev, nosort)
    \/ ApplyDefaultMapping

SpecHeuristic == InitRegistry /\ [][NextHeuristic]_vars

C31_ButtonsWithDirections ==
    (/\ last.op = "joystick_device_apply_default_mapping"
     /\ (Len(backend_joydev.hats) > 0 \/ Len(backend_joydev.axes) >= 2))
    => \A i \in 1 .. Len(backend_joydev.buttons) :
          CASE i = 1 -> IsPin(backend_joydev.buttons[i].mapping, JOYPORT_FIRE)
            [] i = 2 -> IsPin(backend_joydev.buttons[i].mapping, JOYPORT_FIRE_POTX)
            [] i = 3 -> IsPin(backend_joydev.buttons[i].mapping, JOYPORT_FIRE_POTY)
            [] OTHER -> TRUE

(* ---------------------------------------------------------------------- *)
(* Ports and host devices (joystick.c 835-890, 2745-2802)                  *)
(* ---------------------------------------------------------------------- *)

\* the loop of joystick_init over the ports, from port i on
RECURSIVE joystick_init_ports(_, _)
joystick_init_ports(S, i) ==
    IF i >= JOYPORT_MAX_PORTS THEN S
    ELSE LET devnum == S.port_map[i]
         IN IF devnum >= JOYDEV_REALJOYSTICK_MIN
            THEN IF devnum - JOYDEV_REALJOYSTICK_MIN < Len(S.devs)
                 THEN joystick_init_ports(
                          [S EXCEPT
                             !.devs[devnum - JOYDEV_REALJOYSTICK_MIN + 1].joyport = i,
                             !.calls = Append(@, Call("joystick_device_open",
                                                      devnum - JOYDEV_REALJOYSTICK_MIN))],
                          i + 1)
                 ELSE joystick_init_ports([S EXCEPT !.port_map[i] = JOYDEV_NONE], i + 1)
            ELSE joystick_init_ports(S, i + 1)

\* joystick_arch_init registers the devices of the host, one after the other
RECURSIVE joystick_arch_init(_, _)
joystick_arch_init(S, hosts) ==
    IF hosts = <<>> THEN S
    ELSE joystick_arch_init(RegisterSorted(S, Head(hosts)), Tail(hosts))

\* hosts: the devices the driver finds; file: the joymap file
joystick_init(S, hosts, file) ==
    LET S1 == joystick_arch_init([S EXCEPT !.devs = <<>>], hosts)
        S2 == joystick_init_ports(S1, 0)
        r == joy_arch_mapping_load(S2.devs, file)
    IN [S2 EXCEPT !.devs = r.devs, !.init_done = TRUE, !.ret = 1]

\* the hosts of the model: up to two pads with two axes and a button
PortHosts ==
    {<<>>,
     <<HostDevice(0, <<2, 1, 0>>, FALSE, FALSE)>>,
     <<HostDevice(0, <<2, 1, 0>>, FALSE, FALSE),
       HostDevice(1, <<2, 1, 0>>, FALSE, FALSE)>>}

\* the ports whose resource is set and the values it is set to: no device,
\* the first, second and third host device
PortsSet == 0 .. 2

PortValues == {JOYDEV_NONE} \cup
              {JOYDEV_REALJOYSTICK_MIN + d : d \in 0 .. 2}

JoystickInit(hosts, file) ==
    /\ ~joystick_init_done
    /\ Install(joystick_init(Cur, hosts, file))
    /\ last' = [op |-> "joystick_init", value |-> Len(hosts)]
    /\ UNCHANGED joymap

\* the state of the program before joystick_init
InitPorts ==
    /\ InitCommon
    /\ joystick_port_map = NoPortMap
    /\ joystick_init_done = FALSE
    /\ netconn = FALSE
    /\ joystick_delay = 0
    /\ joystick_machine_func = FALSE
    /\ joystick_devices = <<>>

NextPorts ==
    \/ \E hosts \in PortHosts, file \in {NoFile, File(<<KeyLine>>)} :
          JoystickInit(hosts, file)
    \/ \E val \in PortValues, port \in PortsSet : SetJoystickDevice(val, port)

SpecPorts == InitPorts /\ [][NextPorts]_vars

\* the host device a port designates (0 for none)
Designated(port) ==
    IF /\ joystick_port_map[port] >= JOYDEV_REALJOYSTICK_MIN
       /\ joystick_port_map[port] - JOYDEV_REALJOYSTICK_MIN < Len(joystick_devices)
    THEN joystick_port_map[port] - JOYDEV_REALJOYSTICK_MIN + 1
    ELSE 0

\* C32: port exclusivity.  Once joystick_init has run, after any calls of
\* set_joystick_device before and after it, no two ports designate the same
\* host device, a device has joyport = p exactly when port p designates it,
\* and joyport = -1 when no port designates it.
C32_PortExclusivity ==
    joystick_init_done =>
        /\ \A p, q \in AllPorts :
              (p # q /\ Designated(p) # 0) => Designated(p) # Designated(q)
        /\ \A d \in 1 .. Len(joystick_devices), p \in AllPorts :
              joystick_devices[d].joyport = p <=> Designated(p) = d
        /\ \A d \in 1 .. Len(joystick_devices) :
              (\A p \in AllPorts : Designated(p) # d)
              => joystick_devices[d].joyport = -1

(* ---------------------------------------------------------------------- *)
(* Hooks and event playback (joystick.c 235-240, 274-297, 316-379)         *)
(* ---------------------------------------------------------------------- *)

\* values the writes and the played events carry
HookValues == {0, JOYPAD_FIRE}

\* the masks the devices of the ports register
HookMasks == {JOYPAD_FIRE}

\* the arrays of values the event module plays back
PlaybackData ==
    {[ZeroPorts EXCEPT ![0] = v0, ![1] = v1] : v0, v1 \in HookValues}

SetHook(port, val, mask) ==
    /\ Install(joystick_set_hook(Cur, port, val, mask))
    /\ last' = [op |-> "joystick_set_hook", port |-> port]
    /\ UNCHANGED joymap

\* the event module starts or stops a playback: event_playback_active()
SetPlayback(active) ==
    /\ playback # active
    /\ Install([Cur EXCEPT !.playback = active])
    /\ last' = [op |-> "event_playback", port |-> 0]
    /\ UNCHANGED joymap

\* the event module plays a recorded event
EventPlayback(data) ==
    /\ playback
    /\ Install(joystick_event_playback(Cur, data))
    /\ last' = [op |-> "joystick_event_playback", port |-> 0]
    /\ UNCHANGED joymap

Clear(port) ==
    /\ Install(joystick_clear(Cur, port))
    /\ last' = [op |-> "joystick_clear", port |-> port]
    /\ UNCHANGED joymap

ClearAll ==
    /\ Install(joystick_clear_all(Cur))
    /\ last' = [op |-> "joystick_clear_all", port |-> 0]
    /\ UNCHANGED joymap

HookWrite ==
    \E port \in UsedPorts, value \in HookValues, delay \in 1 .. CyclesPerFrame :
        \/ Write_absolute(port, value, delay)
        \/ Write_or(port, value, delay)
        \/ Write_and(port, value, delay)

NextHooks ==
    \/ \E port \in UsedPorts, val \in {0, 1}, mask \in HookMasks :
          SetHook(port, val, mask)
    \/ \E active \in BOOLEAN : SetPlayback(active)
    \/ \E data \in PlaybackData : EventPlayback(data)
    \/ \E port \in UsedPorts : Clear(port)
    \/ ClearAll
    \/ HookWrite
    \/ LatchAlarm

SpecHooks == InitLocal /\ [][NextHooks]_vars

\* C33: playback guard.  A call of joystick_set_value_absolute, _or or _and
\* made while the event playback is active leaves the latched values, the
\* last-used port, the current values, the pending latch alarm and the state
\* of the hooks as they were, and records no event.
C33_PlaybackGuard ==
    [][(playback /\ last'.op \in WriteOps)
       => /\ latch_joystick_value' = latch_joystick_value
          /\ joystick_value' = joystick_value
          /\ joystick_alarm' = joystick_alarm
          /\ joystick_hooks' = joystick_hooks
          /\ \A i \in 1 .. Len(calls') : calls'[i].fn # "event_record"]_vars

\* a write was made during a playback that had latched fire on port 0,
\* with a hook on port 0 and a latch alarm pending
C33_Witness ==
    /\ playback
    /\ last.op \in WriteOps
    /\ latch_joystick_value.values[0] = JOYPAD_FIRE
    /\ joystick_value[0] = JOYPAD_FIRE
    /\ joystick_hooks.hook[0] # 0
    /\ joystick_alarm > 0

\* C34: joystick_clear(port) affects only that port.  The call sets the
\* latched and the current value of its port to 0 at once and leaves the
\* latched and the current value of every other port as they were, also
\* when a write to another port is waiting for its latch.
C34_ClearOnePort ==
    [][last'.op = "joystick_clear"
       => /\ latch_joystick_value'.values[last'.port] = 0
          /\ joystick_value'[last'.port] = 0
          /\ \A q \in AllPorts \ {last'.port} :
                /\ latch_joystick_value'.values[q] = latch_joystick_value.values[q]
                /\ joystick_value'[q] = joystick_value[q]]_vars

\* the part of the claim on the port cleared and on the latched values
C34_ClearedPort ==
    [][last'.op = "joystick_clear"
       => /\ latch_joystick_value'.values[last'.port] = 0
          /\ joystick_value'[last'.port] = 0
          /\ \A q \in AllPorts \ {last'.port} :
                latch_joystick_value'.values[q] = latch_joystick_value.values[q]]_vars

\* the operations that modify the latched values
LatchOps == WriteOps \cup {"joystick_clear", "joystick_clear_all", "joystick_event_playback"}

\* the latched value of a port under the mask of its hook
MaskedLatch(latch, port) == BitAnd(latch.values[port], joystick_hooks.mask[port])

\* C35: hook notification.  For a port with a hook enabled, when an
\* operation that modifies the latched values (absolute/OR/AND write,
\* joystick_clear, joystick_clear_all, joystick_event_playback) changes the
\* masked latched value of the port, joyport_handle_joystick_hook is called
\* for the port with the new masked value, and after the operation the value
\* last reported to the hook is the masked latched value.  (The port's hook
\* had been told the masked value the port had before the operation.)
C35_HookNotification ==
    [][\A p \in AllPorts :
         (/\ last'.op \in LatchOps
          /\ joystick_hooks.hook[p] # 0
          /\ joystick_hooks.state[p] = MaskedLatch(latch_joystick_value, p)
          /\ MaskedLatch(latch_joystick_value', p) # MaskedLatch(latch_joystick_value, p))
         => /\ \E i \in 1 .. Len(calls') :
                 calls'[i] = Call("joyport_handle_joystick_hook",
                                  <<p, MaskedLatch(latch_joystick_value', p)>>)
            /\ joystick_hooks'.state[p] = MaskedLatch(latch_joystick_value', p)]_vars

\* the same for the operations other than joystick_event_playback
C35_HookNotificationOutsidePlayback ==
    [][\A p \in AllPorts :
         (/\ last'.op \in LatchOps \ {"joystick_event_playback"}
          /\ joystick_hooks.hook[p] # 0
          /\ joystick_hooks.state[p] = MaskedLatch(latch_joystick_value, p)
          /\ MaskedLatch(latch_joystick_value', p) # MaskedLatch(latch_joystick_value, p))
         => /\ \E i \in 1 .. Len(calls') :
                 calls'[i] = Call("joyport_handle_joystick_hook",
                                  <<p, MaskedLatch(latch_joystick_value', p)>>)
            /\ joystick_hooks'.state[p] = MaskedLatch(latch_joystick_value', p)]_vars

(* ---------------------------------------------------------------------- *)
(* Events of a device assigned to no port (joystick.c 2995-3188)           *)
(* ---------------------------------------------------------------------- *)

\* the joymap file: a mapping of every action on the inputs of the pad
InertJoymap ==
    File(<<ClearLine,
           Line(<<0, 0, 0, 1, JOYSTICK_DIRECTION_RIGHT>>, ""),
           Line(<<0, 0, 1, 2, 3, 4>>, ""),
           Line(<<0, 1, 0, 5>>, "quit"),
           Line(<<0, 1, 1, 4>>, ""),
           Line(<<0, 2, 0, 1, JOYSTICK_DIRECTION_UP>>, ""),
           Line(<<0, 2, 1, 2, 1, 2>>, ""),
           Line(<<0, 2, 2, 5>>, "reset-soft"),
           Line(<<0, 2, 3, 3>>, "")>>)

\* a pad with one analog axis, two buttons and a hat that no port names
InertDevices ==
    joy_arch_mapping_load(
        RegisterSorted([devs |-> <<>>, ret |-> TRUE, calls |-> <<>>],
                       HostDevice(0, <<1, 2, 1>>, FALSE, FALSE)).devs,
        InertJoymap).devs

InitInert ==
    /\ InitCommon
    /\ joystick_port_map = NoPortMap
    /\ joystick_init_done = TRUE
    /\ netconn = FALSE
    /\ joystick_delay = 0
    /\ joystick_machine_func = FALSE
    /\ joystick_devices = InertDevices

NextInert ==
    \E k \in 1 .. 2, delay \in EventDelays :
        \/ \E value \in AxisValues : AxisEvent(1, k, value, delay)
        \/ \E value \in ButtonValues : ButtonEvent(1, k, value, delay)
        \/ \E value \in HatValues : HatEvent(1, k, value, delay)

SpecInert == InitInert /\ [][NextInert]_vars

\* what an event does to the emulated machine outside joystick.c
EmulatedCalls == {"keyboard_set_keyarr_any", "arch_ui_activate", "ui_action_trigger"}

\* C36: unassigned devices are inert.  While a device is assigned to no
\* port (joyport = -1), the events of its axes, buttons and hats change no
\* latched value and no press counter, set no position of the keyboard
\* matrix and trigger no UI action, whatever the action of the mapping.
C36_UnassignedInert ==
    (\A d \in 1 .. Len(joystick_devices) : joystick_devices[d].joyport = -1)
    => /\ latch_joystick_value = InitialValues
       /\ joystick_value = ZeroPorts
       /\ \A p \in AllPorts, i \in AllPins : gtkjoy_pins[p][i] = 0
       /\ \A i \in 1 .. Len(calls) : calls[i].fn \notin EmulatedCalls

\* the same without the keyboard matrix
C36_UnassignedNoPortNoUi ==
    (\A d \in 1 .. Len(joystick_devices) : joystick_devices[d].joyport = -1)
    => /\ latch_joystick_value = InitialValues
       /\ joystick_value = ZeroPorts
       /\ \A p \in AllPorts, i \in AllPins : gtkjoy_pins[p][i] = 0
       /\ \A i \in 1 .. Len(calls) :
             calls[i].fn \notin {"arch_ui_activate", "ui_action_trigger"}

(* ---------------------------------------------------------------------- *)
(* The registry and the shutdown (joystick.c 3305-3331, 3431-3460,         *)
(* 3746-3766)                                                              *)
(* ---------------------------------------------------------------------- *)

\* what is left of a device joystick_device_free released
Freed(joydev) == [name |-> joydev.name, freed |-> TRUE]

Live(joydev) == "freed" \notin DOMAIN joydev

\* the driver has a close method; num_joystick_devices is not written, and
\* the array, released too, is read as it was left
joystick_close(S) ==
    [S EXCEPT !.devs = [i \in 1 .. Len(S.devs) |-> Freed(S.devs[i])],
              !.calls = @ \o Flatten([i \in 1 .. Len(S.devs) |->
                           <<Call("joy_driver.close", S.devs[i].name),
                             Call("joystick_device_free", S.devs[i].name)>>])]

\* num_joystick_devices
joystick_device_count(S) == Len(S.devs)

\* the device returned ("NULL" for none); reading a released array is
\* undefined: outcome is what the read gives then
joystick_device_by_index(S, index, outcome) ==
    IF index < 0 \/ index >= Len(S.devs) THEN "NULL"
    ELSE IF Live(S.devs[index + 1]) THEN "device"
    ELSE outcome

\* the driver has a poll method
joystick(S) ==
    [S EXCEPT !.calls = @ \o [i \in 1 .. Len(S.devs) |->
                                 Call("joy_driver.poll",
                                      <<S.devs[i].name, Live(S.devs[i])>>)]]

\* devices the backend offers
ShutdownShapes == {<<0, 0, 0>>, <<2, 1, 0>>, <<0, 1, 1>>, <<2, 3, 1>>}

\* indexes looked up
LookupIndexes == -1 .. MaxDevices

\* what a read of the released array can give
ReleasedReads == {"released device", "fault"}

\* joystick_close has run
Released == last.op # "init" /\ last.op # "joystick_device_register" /\ last.released

ShutdownRegister ==
    /\ ~Released
    /\ \E shape \in ShutdownShapes, rev \in BOOLEAN : Register(shape, rev, FALSE)

JoystickClose ==
    /\ ~Released
    /\ Install(joystick_close(Cur))
    /\ last' = [op |-> "joystick_close", count |-> Len(joystick_devices),
                index |-> 0, ret |-> "", released |-> TRUE]
    /\ UNCHANGED joymap

Lookup(index) ==
    \E outcome \in ReleasedReads :
        /\ Install(Cur)
        /\ last' = [op |-> "joystick_device_by_index",
                    count |-> joystick_device_count(Cur),
                    index |-> index,
                    ret |-> joystick_device_by_index(Cur, index, outcome),
                    released |-> Released]
        /\ UNCHANGED joymap

Poll ==
    /\ Install(joystick(Cur))
    /\ last' = [op |-> "joystick", count |-> joystick_device_count(Cur),
                index |-> 0, ret |-> "",
                released |-> Released]
    /\ UNCHANGED joymap

NextShutdown ==
    \/ ShutdownRegister
    \/ JoystickClose
    \/ \E index \in LookupIndexes : Lookup(index)
    \/ Poll

SpecShutdown == InitRegistry /\ [][NextShutdown]_vars

\* C37: registry consistency across shutdown.  The count is the number of
\* live registered devices and a lookup returns a live device exactly for
\* an index from 0 to the count - 1; after joystick_close the count is 0,
\* every lookup fails, and a poll touches no released device.
C37_RegistryConsistency ==
    /\ joystick_device_count(Cur)
          = Cardinality({d \in 1 .. Len(joystick_devices) : Live(joystick_devices[d])})
    /\ Released => joystick_device_count(Cur) = 0
    /\ last.op = "joystick_device_by_index"
          => (last.ret = "device" <=> (0 <= last.index /\ last.index < last.count))
             /\ last.ret \in {"device", "NULL"}
             /\ (Released => last.ret = "NULL")
    /\ \A i \in 1 .. Len(calls) :
          calls[i].fn = "joy_driver.poll" => calls[i].arg[2]

\* the same while joystick_close has not run
C37_ConsistentWhileRunning ==
    ~Released =>
        /\ joystick_device_count(Cur)
              = Cardinality({d \in 1 .. Len(joystick_devices) : Live(joystick_devices[d])})
        /\ last.op = "joystick_device_by_index"
              => (last.ret = "device" <=> (0 <= last.index /\ last.index < last.count))
                 /\ last.ret \in {"device", "NULL"}
        /\ \A i \in 1 .. Len(calls) :
              calls[i].fn = "joy_driver.poll" => calls[i].arg[2]

\* the column of the key of the opposite direction
OppositeColumn(column) ==
    CASE column = JOYSTICK_KEYSET_N -> JOYSTICK_KEYSET_S
      [] column = JOYSTICK_KEYSET_S -> JOYSTICK_KEYSET_N
      [] column = JOYSTICK_KEYSET_W -> JOYSTICK_KEYSET_E
      [] column = JOYSTICK_KEYSET_E -> JOYSTICK_KEYSET_W
      [] column = JOYSTICK_KEYSET_NE -> JOYSTICK_KEYSET_SW
      [] column = JOYSTICK_KEYSET_SW -> JOYSTICK_KEYSET_NE
      [] column = JOYSTICK_KEYSET_NW -> JOYSTICK_KEYSET_SE
      [] OTHER -> JOYSTICK_KEYSET_NW

\* the step is the tracked release of the key opposite to the held key of
\* column d of the keyset
OppositeReleased(keysetnum, d) ==
    /\ joystick_opposite_enable = 0
    /\ joypad_status[keysetnum][d] = 1
    /\ joypad_status[keysetnum][OppositeColumn(d)] = 1
    /\ last'.op = "joystick_check_clr"
    /\ last'.ret = 1
    /\ last'.keysetnum = keysetnum
    /\ last'.column = OppositeColumn(d)

\* the value written asserts the direction of column d and no direction of
\* the opposite column
Restored(written, d) ==
    /\ Contains(written, joypad_bits[d + 1])
    /\ BitAnd(written, joypad_bits[OppositeColumn(d) + 1]) = 0

\* no key held besides those of d and of its opposite asserts a direction
\* of the opposite column
OppositeOnlyByKey(keysetnum, d) ==
    \A c \in KeysetColumns \ {d, OppositeColumn(d)} :
        joypad_status[keysetnum][c] = 1
        => BitAnd(joypad_bits[c + 1], joypad_bits[OppositeColumn(d) + 1]) = 0

\* C38 as stated: keyset release restores the held opposite (opposite
\* directions disallowed).  When the key of the direction opposite to a held
\* direction key d is released while d is held, the value written to the
\* port asserts d and not its opposite.
C38_KeysetRelease ==
    [][\A keysetnum \in Keysets, d \in DirectionColumns :
          OppositeReleased(keysetnum, d)
          => /\ calls'[1].fn = "joystick_set_value_absolute"
             /\ Restored(calls'[1].arg[2], d)]_vars

\* C38 amended: the same when no other held key of the keyset asserts the
\* opposite direction.
C38_KeysetReleaseAmended ==
    [][\A keysetnum \in Keysets, d \in DirectionColumns :
          (OppositeReleased(keysetnum, d) /\ OppositeOnlyByKey(keysetnum, d))
          => /\ calls'[1].fn = "joystick_set_value_absolute"
             /\ calls'[1].arg[1] = keysetnum
             /\ latch_joystick_value'.values[keysetnum] = calls'[1].arg[2]
             /\ Restored(calls'[1].arg[2], d)]_vars

\* down was released while up and left were held: up and left were written
C38_Witness ==
    /\ last.op = "joystick_check_clr"
    /\ last.ret = 1
    /\ last.keysetnum = 0
    /\ last.column = JOYSTICK_KEYSET_S
    /\ joypad_status[0][JOYSTICK_KEYSET_N] = 1
    /\ joypad_status[0][JOYSTICK_KEYSET_W] = 1
    /\ joypad_vmask[0] = BitNot16(JOYPAD_N)
    /\ calls[1].arg[2] = JOYPAD_N + JOYPAD_W
    /\ latch_joystick_value.values[0] = JOYPAD_N + JOYPAD_W

(* ---------------------------------------------------------------------- *)
(* An inverted axis with the default thresholds (joystick.c 3065-3091,     *)
(* 3835-3851)                                                              *)
(* ---------------------------------------------------------------------- *)

\* ranges [minimum, maximum] of at least four values, centred on zero and
\* not
DefaultRanges == {<<-128, 127>>, <<-2, 1>>, <<0, 3>>, <<0, 255>>, <<1, 1024>>}

\* the pad of the dispatch specification, its one axis with the range, the
\* default calibration of the range, and inverted
DefaultInvertedDevices(range) ==
    [DispatchDevices EXCEPT
        ![1].axes[1] =
            [joystick_calibration_default_for_axis(
                 [@ EXCEPT !.digital = FALSE,
                           !.minimum = range[1],
                           !.maximum = range[2]])
               EXCEPT !.calibration.invert = TRUE]]

InitDefaultInvert ==
    /\ InitCommon
    /\ joystick_port_map = [NoPortMap EXCEPT ![0] = JOYDEV_REALJOYSTICK_MIN]
    /\ joystick_init_done = TRUE
    /\ netconn = FALSE
    /\ joystick_delay = 0
    /\ joystick_machine_func = FALSE
    /\ \E range \in DefaultRanges : joystick_devices = DefaultInvertedDevices(range)

SpecDefaultInvert == InitDefaultInvert /\ [][NextInvert]_vars

\* C39: inversion flips the direction.  On an analog axis with the default
\* thresholds of its range and invert set, a raw value equal to the maximum
\* of the range gives the direction negative and a raw value equal to the
\* minimum gives positive, for every range of at least four values.
C39_InversionFlips ==
    LET axis == joystick_devices[1].axes[1]
    IN (/\ last.op = "joy_axis_event"
        /\ ~axis.digital
        /\ axis.calibration.invert
        /\ axis.maximum - axis.minimum >= 3)
       => /\ last.value = axis.maximum => axis.prev = "JOY_AXIS_NEGATIVE"
          /\ last.value = axis.minimum => axis.prev = "JOY_AXIS_POSITIVE"

\* the same for the ranges centred on zero (minimum = -maximum - 1)
C39_InversionFlipsCentred ==
    LET axis == joystick_devices[1].axes[1]
    IN (/\ last.op = "joy_axis_event"
        /\ ~axis.digital
        /\ axis.calibration.invert
        /\ axis.maximum - axis.minimum >= 3
        /\ axis.minimum = -axis.maximum - 1)
       => /\ last.value = axis.maximum => axis.prev = "JOY_AXIS_NEGATIVE"
          /\ last.value = axis.minimum => axis.prev = "JOY_AXIS_POSITIVE"

====
